---------------------------- MODULE Spec2Model ----------------------------
(***************************************************************************)
(* State-machine model of the nik utility library's concurrent core:       *)
(*   - the asynchronous log writer (Logger / Logger::LogImpl, Logger.cpp   *)
(*     and Logger.h) with its two Win32 mutexes and its drain thread;      *)
(*   - the cooperative thread coordinator (ThreadCoord, ThreadObj.h) and   *)
(*     its one-shot variant (SimpleThreadCoord, ThreadObj.cpp).            *)
(*                                                                         *)
(* Threads are interleaved one source statement group at a time.  Sleep()  *)
(* calls give no ordering guarantee and are therefore not modelled as      *)
(* synchronisation: a sleeping thread is simply a thread that may be       *)
(* scheduled later.  A bounded wait on a mutex may time out whenever the   *)
(* mutex is held by another thread.  ScopeLock is modelled as built        *)
(* without NIK_DEBUG (ScopeLock.h line 48: an unbounded Lock()).           *)
(***************************************************************************)
EXTENDS Integers, Sequences, FiniteSets, TLC

\* ------------------------------------------------------------------ bounds
NumProducers == 2      \* producer threads using the one Logger
MaxAppend    == 2      \* operator<< calls made in all (Logger and TLogger)
MaxSetFile   == 2      \* Logger::SetFile calls by the owning thread
NumFiles     == 1      \* distinct file names passed to SetFile
MaxRuns      == 2      \* Run calls made per runner thread
NumRunners   == 2      \* threads calling Run on one coordinator instance
NumWaiters   == 2      \* threads waiting on one Event
MaxWaits     == 2      \* WaitForEvent calls made per waiting thread
MaxSignals   == 2      \* SignalStop calls counted per Run ("many")
MaxTicks     == 4      \* advances of the clock observed by one Timer
MaxTimerOps  == 3      \* Start, Stop and Reset calls made on one Timer
MaxArgs      == 3      \* arguments after the program name in one argv
NumObservers == 2      \* Observer objects
NumObservables == 2    \* Observable objects
MaxObsOps    == 4      \* registerObs and unregisterObs calls made in all

\* ----------------------------------------------------------------- threads
NoThread    == <<"none", 0>>
OwnerThread == <<"owner", 0>>
DrainThread == <<"drain", 0>>
Producers   == {<<"producer", i>> : i \in 1..NumProducers}
Runners     == {<<"runner", i>> : i \in 1..NumRunners}
Waiters     == {<<"waiter", i>> : i \in 1..NumWaiters}
FileNames   == 1..NumFiles

\* The text inserted by producer p's k-th operator<< call.
Token(p, k) == <<p, k>>

VARIABLES
    \* ---- Logger / LogImpl fields
    m_Os,            \* Logger::m_Os, the front buffer
    m_Lock,          \* Logger::m_Lock, the front lock
    m_Buffer,        \* LogImpl::m_Buffer, the pending accumulator
    m_BuffMutex,     \* LogImpl::m_BuffMutex, the buffer lock
    m_Of,            \* LogImpl::m_Of, the destination stream
    m_Continue,      \* LogImpl::m_Continue
    m_ThreadStarted, \* LogImpl::m_ThreadStarted
    files,           \* file system: file name -> content on disk
    outBuffer,       \* LogThreadFunc's local outBuffer
    \* ---- control state of the threads
    ppc,             \* producer -> position
    opc,             \* owning thread's position
    dpc,             \* drain thread's position
    nextTok,         \* producer -> number of operator<< calls completed
    setFiles,        \* number of SetFile calls made
    crashed,         \* the process has terminated abnormally
    \* ---- history (not program state)
    accepted,        \* text for which Write returned true, in order
    refused,         \* text that was in m_Os when a Write returned false
    created,         \* drain threads and buffer locks created so far
    manip,           \* producer -> it is inside operator<<(ManipFunc_t)
                     \* called with endl
    \* ---- TLogger fields, one TLogger per producer
    t_Os,            \* producer -> TLogger::m_Os of its TLogger
    tpc,             \* producer -> position inside TLogger::Flush
    t_Count,         \* producer -> TLogger::operator<< calls completed
    batches,         \* history: the texts handed to the Logger by Flush
    \* ---- ThreadCoord fields
    m_IsRunning,          \* ThreadCoord::m_IsRunning
    m_StopEvent,          \* ThreadCoord::m_StopEvent
    m_ThreadStoppedEvent, \* ThreadCoord::m_ThreadStoppedEvent
    \* ---- control state of the coordinator's threads
    rpc,             \* runner -> position inside ThreadCoord::Run
    continueThread,  \* runner -> Run's local continueThread
    cpc,             \* controlling thread's position
    runs,            \* runner -> number of Run calls made
    coordFault,      \* the process has terminated abnormally
    \* ---- history (not program state)
    runOutcome,      \* runner -> how its latest Run call went
    ctlOutcome,      \* how the controlling thread's latest call went
    sinceRun,        \* that call was made after the latest Run call
    signalled,       \* SignalStop calls that set the signal since then
    dtor,            \* how far the destruction of the coordinator has got
    falseCalls,      \* history: runner -> calls of the work function with
                     \* the flag false made by its latest Run
    \* ---- SimpleThreadCoord fields
    s_StopEvent,          \* SimpleThreadCoord::m_StopEvent
    s_ThreadStoppedEvent, \* SimpleThreadCoord::m_ThreadStoppedEvent
    \* ---- control state of the one-shot coordinator's threads
    spc,             \* runner -> position inside SimpleThreadCoord::Run
    s_Continue,      \* runner -> Run's local continueThread
    scpc,            \* controlling thread's position
    s_Runs,          \* runner -> number of Run calls made
    s_Fault,         \* the process has terminated abnormally
    s_Outcome,       \* history: runner -> how its latest Run call went
    \* ---- an Event used on its own
    m_Event,         \* EventImpl::m_Event, the state of the event object
    wpc,             \* waiter -> position inside WaitForEvent
    waitTime,        \* waiter -> waitTime of its WaitForEvent call
    waitResult,      \* waiter -> value returned by its latest call
    waits,           \* waiter -> number of WaitForEvent calls made
    sureWait,        \* history: waiter -> its call began after a SetEvent
                     \* and no ClearEvent has been made since
    \* ---- Timer fields (t_IsRunning is Timer::m_IsRunning)
    t_IsRunning,     \* Timer::m_IsRunning
    m_TicksStart,    \* Timer::m_TicksStart
    m_StoredTicks,   \* Timer::m_StoredTicks
    clock,           \* the value clock() returns now
    timeMs,          \* value returned by the latest GetTimeMs call
    timeRead,        \* that call was the latest step of the Timer
    ticks,           \* number of advances of the clock so far
    timerOps,        \* number of Start, Stop and Reset calls so far
    ranFor,          \* history: clock ticks spent between a Start and the
                     \* next Stop or Reset, since the last Reset
    \* ---- CmdLine
    argv,            \* the argument vector of the latest ParseCmdArg call
    m_Args,          \* CmdLine::m_Args, a set of [flag, data] pairs
    askedFlag,       \* flag of the latest GetArg call, <<>> before any
    gotArg,          \* what that call returned
    \* ---- Observable and its Observers
    o_ID,            \* observer -> Observer::m_ID
    m_ObserverList,  \* observable -> Observable::m_ObserverList
    m_FreeIDs,       \* observable -> Observable::m_FreeIDs
    notified,        \* observer -> calls of its signal() made by the
                     \* latest notifyAll
    notifiedNow,     \* the observable whose notifyAll was the latest call
                     \* on an Observable, 0 when that was another call
    obsRaised,       \* the latest call on an Observable raised
    obsOps,          \* registerObs and unregisterObs calls so far
    registered,      \* history: observable -> observers registered with
                     \* it and not unregistered from it since
    \* ---- ThreadObj and the thread it spawns
    o_Thread,        \* ThreadObj::m_Thread: "null", or "set" when it
                     \* holds the address of the Thread object
    threadObject,    \* the Thread object: "none", "live" or "deleted"
    handleDeletes,   \* delete expressions evaluated on that object
    hpc,             \* spawned thread's position in MyThreadFunction
    opos,            \* owner's position in ~ThreadObj
    spawns           \* ThreadObj::Run calls that started a thread

tlogVars == <<t_Os, tpc, t_Count, batches>>

logVars == <<m_Os, m_Lock, m_Buffer, m_BuffMutex, m_Of, m_Continue,
             m_ThreadStarted, files, outBuffer, ppc, opc, dpc, nextTok,
             setFiles, crashed, accepted, refused, created, manip,
             tlogVars>>

hist == <<runOutcome, ctlOutcome, sinceRun, signalled>>

coordVars == <<m_IsRunning, m_StopEvent, m_ThreadStoppedEvent, rpc,
               continueThread, cpc, runs, coordFault, hist, dtor,
               falseCalls>>

simpleVars == <<s_StopEvent, s_ThreadStoppedEvent, spc, s_Continue, scpc,
                s_Runs, s_Fault, s_Outcome>>

eventVars == <<m_Event, wpc, waitTime, waitResult, waits, sureWait>>

timerVars == <<t_IsRunning, m_TicksStart, m_StoredTicks, clock, timeMs,
               timeRead, ticks, timerOps, ranFor>>

cmdVars == <<argv, m_Args, askedFlag, gotArg>>

obsVars == <<o_ID, m_ObserverList, m_FreeIDs, notified, notifiedNow,
             obsRaised, obsOps, registered>>

objVars == <<o_Thread, threadObject, handleDeletes, hpc, opos, spawns>>

utilVars == <<timerVars, cmdVars, obsVars, objVars>>

vars == <<logVars, coordVars, simpleVars, eventVars, utilVars>>

Range(s) == {s[i] : i \in 1..Len(s)}

\* --------------------------------------------------------------- nik::Mutex
\* A Win32 mutex object: owned by at most one thread, recursively
\* acquirable by its owner.  state is "absent" (null pointer), "live" or
\* "deleted".
NullMutex == [state |-> "absent", holder |-> NoThread, count |-> 0]

MutexCreate == [state |-> "live", holder |-> NoThread, count |-> 0]

\* Mutex::Lock can return true for thread t now.
MutexFree(m, t) == m.state = "live" /\ m.holder \in {NoThread, t}

\* Mutex::Lock(timeOut) with a finite timeOut can return false for t.
MutexBusy(m, t) == m.state = "live" /\ m.holder \notin {NoThread, t}

MutexLock(m, t) == [m EXCEPT !.holder = t, !.count = @ + 1]

\* Mutex::Unlock: ReleaseMutex fails (and changes nothing) unless the
\* caller owns the mutex.
MutexUnlock(m, t) ==
    IF m.holder = t
    THEN IF m.count > 1 THEN [m EXCEPT !.count = @ - 1]
         ELSE [m EXCEPT !.holder = NoThread, !.count = 0]
    ELSE m

\* delete of the Mutex: its handle is closed, whoever owns it.
MutexDelete(m) == [m EXCEPT !.state = "deleted"]

\* Thread t has acquired the mutex and not yet released it.
Holds(m, t) == m.holder = t

\* ----------------------------------------------------------- std::ofstream
\* open: a file is associated; fail: failbit/badbit set; name: the file;
\* buf: characters written but not yet flushed to the file.
ClosedStream == [open |-> FALSE, fail |-> FALSE, name |-> 0, buf |-> <<>>]

\* m_Of << text.  A stream in a failed state ignores the insertion; an
\* insertion into a stream with no open file fails and sets badbit.
StreamWrite(of, text) ==
    IF of.fail THEN of
    ELSE IF ~of.open THEN (IF text = <<>> THEN of ELSE [of EXCEPT !.fail = TRUE])
    ELSE [of EXCEPT !.buf = @ \o text]

\* The file system after the stream's buffered characters are written out.
Synced(of, fs) ==
    IF of.open THEN [fs EXCEPT ![of.name] = @ \o of.buf] ELSE fs

\* m_Of.flush()
StreamFlush(of) == IF of.open THEN [of EXCEPT !.buf = <<>>] ELSE of

\* m_Of.close()
StreamClose(of) ==
    IF of.open THEN [of EXCEPT !.open = FALSE, !.buf = <<>>]
    ELSE [of EXCEPT !.fail = TRUE]

\* m_Of.open(fileName), default mode ios_base::out: the file is truncated;
\* on success the state flags are cleared, on failure failbit is set.
StreamOpen(of, name, ok) ==
    IF ok /\ ~of.open
    THEN [open |-> TRUE, fail |-> FALSE, name |-> name, buf |-> <<>>]
    ELSE [of EXCEPT !.fail = TRUE]

Truncated(of, fs, name, ok) ==
    IF ok /\ ~of.open THEN [fs EXCEPT ![name] = <<>>] ELSE fs

\* Number of operator<< calls completed by the producers in ps.
RECURSIVE Inserted(_)
Inserted(ps) ==
    IF ps = {} THEN 0
    ELSE LET p == CHOOSE q \in ps : TRUE
         IN  nextTok[p] + Inserted(ps \ {p})

\* TLogger::operator<< calls completed by the producers in ps.
RECURSIVE TInserted(_)
TInserted(ps) ==
    IF ps = {} THEN 0
    ELSE LET p == CHOOSE q \in ps : TRUE
         IN  t_Count[p] + TInserted(ps \ {p})

\* Producers inside an operator<< call.
Inserting == {p \in Producers : ppc[p] \in {"mn_lock", "ins_lock", "ins_body"}}

\* -------------------------------------------------------------------- Init
TeardownPcs == {"td_lock", "td_force", "td_delete", "td_close", "gone"}

TeardownBegun == opc \in TeardownPcs

CoordInit ==
    /\ m_IsRunning = FALSE
    /\ m_StopEvent = "absent"
    /\ m_ThreadStoppedEvent = "absent"
    /\ rpc = [r \in Runners |-> "idle"]
    /\ continueThread = [r \in Runners |-> TRUE]
    /\ cpc = "idle"
    /\ runs = [r \in Runners |-> 0]
    /\ coordFault = FALSE
    /\ runOutcome = [r \in Runners |-> "none"]
    /\ ctlOutcome = "none"
    /\ sinceRun = FALSE
    /\ signalled = 0
    /\ dtor = "none"
    /\ falseCalls = [r \in Runners |-> 0]

\* Event::FOREVER, the value INFINITE (all 32 bits set)
FOREVER == -1

\* An Event that Event::Create has returned: not signaled.
EventInit ==
    /\ m_Event = "clear"
    /\ wpc = [w \in Waiters |-> "idle"]
    /\ waitTime = [w \in Waiters |-> 0]
    /\ waitResult = [w \in Waiters |-> "none"]
    /\ waits = [w \in Waiters |-> 0]
    /\ sureWait = [w \in Waiters |-> FALSE]

\* The words an argument vector is made of.  An argument is a sequence of
\* characters.
ProgName == <<"n", "i", "k">>

\* CmdLine::CmdLine(argc, argv) is ParseCmdArg(argc, argv); here the
\* program was started without arguments.
CmdInit ==
    /\ argv = <<ProgName>>
    /\ m_Args = {}
    /\ askedFlag = <<>>
    /\ gotArg = [null |-> TRUE, str |-> <<>>]

Observers == 1..NumObservers

Observables == 1..NumObservables

\* Observer::InvalidID
InvalidID == 0

\* Observer::Observer() for every observer, and Observable::Observable()
\* for every observable
ObsInit ==
    /\ o_ID = [o \in Observers |-> InvalidID]
    /\ m_ObserverList = [s \in Observables |-> <<>>]
    /\ m_FreeIDs = [s \in Observables |-> <<InvalidID + 1>>]
    /\ notified = [o \in Observers |-> 0]
    /\ notifiedNow = 0
    /\ obsRaised = FALSE
    /\ obsOps = 0
    /\ registered = [s \in Observables |-> {}]

\* ThreadObj::ThreadObj(): m_Thread(0)
ObjInit ==
    /\ o_Thread = "null"
    /\ threadObject = "none"
    /\ handleDeletes = 0
    /\ hpc = "none"
    /\ opos = "none"
    /\ spawns = 0

\* Timer::Timer(false); the clock has some value, here 0.
TimerInit ==
    /\ t_IsRunning = FALSE
    /\ m_TicksStart = 0
    /\ m_StoredTicks = 0
    /\ clock = 0
    /\ timeMs = 0
    /\ timeRead = FALSE
    /\ ticks = 0
    /\ timerOps = 0
    /\ ranFor = 0

SimpleInit ==
    /\ s_StopEvent = "absent"
    /\ s_ThreadStoppedEvent = "absent"
    /\ spc = [r \in Runners |-> "idle"]
    /\ s_Continue = [r \in Runners |-> TRUE]
    /\ scpc = "idle"
    /\ s_Runs = [r \in Runners |-> 0]
    /\ s_Fault = FALSE
    /\ s_Outcome = [r \in Runners |-> "none"]

LogInit ==
    /\ m_Os = <<>>
    /\ m_Lock = MutexCreate
    /\ m_Buffer = <<>>
    /\ m_BuffMutex = NullMutex
    /\ m_Of = ClosedStream
    /\ m_Continue = FALSE
    /\ m_ThreadStarted = FALSE
    /\ files = [n \in FileNames |-> <<>>]
    /\ outBuffer = <<>>
    /\ ppc = [p \in Producers |-> "idle"]
    /\ opc = "idle"
    /\ dpc = "none"
    /\ nextTok = [p \in Producers |-> 0]
    /\ setFiles = 0
    /\ crashed = FALSE
    /\ accepted = <<>>
    /\ refused = {}
    /\ created = [threads |-> 0, locks |-> 0]
    /\ manip = [p \in Producers |-> FALSE]
    /\ t_Os = [p \in Producers |-> <<>>]
    /\ tpc = [p \in Producers |-> "none"]
    /\ t_Count = [p \in Producers |-> 0]
    /\ batches = {}


\* ------------------------------------------------------ producer operations
\* A producer calls Logger::operator<< (Logger.h).  Calls are made only on
\* a Logger whose destruction has not begun.
CallInsert(p) ==
    /\ ~crashed /\ ~TeardownBegun
    /\ ppc[p] = "idle" /\ tpc[p] = "none"
    /\ Inserted(Producers) + Cardinality(Inserting) + TInserted(Producers)
          < MaxAppend
    /\ ppc' = [ppc EXCEPT ![p] = "ins_lock"]
    /\ UNCHANGED <<coordVars, simpleVars, eventVars, utilVars, manip, tlogVars, created>>
    /\ UNCHANGED <<m_Os, m_Lock, m_Buffer, m_BuffMutex, m_Of, m_Continue,
                   m_ThreadStarted, files, outBuffer, opc, dpc, nextTok,
                   setFiles, crashed, accepted, refused>>

\* ScopeLock al(m_Lock) in operator<<: waits without bound.
InsertLock(p) ==
    /\ ~crashed
    /\ ppc[p] = "ins_lock"
    /\ MutexFree(m_Lock, p)
    /\ m_Lock' = MutexLock(m_Lock, p)
    /\ ppc' = [ppc EXCEPT ![p] = "ins_body"]
    /\ UNCHANGED <<coordVars, simpleVars, eventVars, utilVars, manip, tlogVars, created>>
    /\ UNCHANGED <<m_Os, m_Buffer, m_BuffMutex, m_Of, m_Continue,
                   m_ThreadStarted, files, outBuffer, opc, dpc, nextTok,
                   setFiles, crashed, accepted, refused>>

\* m_Os << val; return *this; ~ScopeLock.  Called by endl, the call is
\* followed by endl's logger.Flush().
InsertBody(p) ==
    /\ ~crashed
    /\ ppc[p] = "ins_body"
    /\ m_Os' = Append(m_Os, Token(p, nextTok[p] + 1))
    /\ nextTok' = [nextTok EXCEPT ![p] = @ + 1]
    /\ m_Lock' = MutexUnlock(m_Lock, p)
    /\ ppc' = [ppc EXCEPT ![p] = IF manip[p] THEN "fl_lock" ELSE "idle"]
    /\ UNCHANGED <<coordVars, simpleVars, eventVars, utilVars, manip, tlogVars, created>>
    /\ UNCHANGED <<m_Buffer, m_BuffMutex, m_Of, m_Continue, m_ThreadStarted,
                   files, outBuffer, opc, dpc, setFiles, crashed, accepted,
                   refused>>

\* A producer calls Logger::Flush.
CallFlush(p) ==
    /\ ~crashed /\ ~TeardownBegun
    /\ ppc[p] = "idle" /\ tpc[p] = "none"
    /\ ppc' = [ppc EXCEPT ![p] = "fl_lock"]
    /\ UNCHANGED <<coordVars, simpleVars, eventVars, utilVars, manip, tlogVars, created>>
    /\ UNCHANGED <<m_Os, m_Lock, m_Buffer, m_BuffMutex, m_Of, m_Continue,
                   m_ThreadStarted, files, outBuffer, opc, dpc, nextTok,
                   setFiles, crashed, accepted, refused>>

\* ScopeLock al(m_Lock) in Flush: waits without bound.
FlushLock(p) ==
    /\ ~crashed
    /\ ppc[p] = "fl_lock"
    /\ MutexFree(m_Lock, p)
    /\ m_Lock' = MutexLock(m_Lock, p)
    /\ ppc' = [ppc EXCEPT ![p] = "fl_write"]
    /\ UNCHANGED <<coordVars, simpleVars, eventVars, utilVars, manip, tlogVars, created>>
    /\ UNCHANGED <<m_Os, m_Buffer, m_BuffMutex, m_Of, m_Continue,
                   m_ThreadStarted, files, outBuffer, opc, dpc, nextTok,
                   setFiles, crashed, accepted, refused>>

\* Mutant: Write goes on to save the text without taking the lock.
WriteUnlocked(p) ==
    /\ ~crashed
    /\ ppc[p] = "fl_write"
    /\ m_BuffMutex.state = "live"
    /\ ppc' = [ppc EXCEPT ![p] = "wr_body"]
    /\ UNCHANGED <<coordVars, simpleVars, eventVars, utilVars, manip, tlogVars, created>>
    /\ UNCHANGED <<m_Os, m_Lock, m_Buffer, m_BuffMutex, m_Of, m_Continue,
                   m_ThreadStarted, files, outBuffer, opc, dpc, nextTok,
                   setFiles, crashed, accepted, refused>>

\* LogImpl::Write: m_BuffMutex->Lock(Wait_Time_glob) returned true.
WriteAcquire(p) ==
    /\ ~crashed
    /\ ppc[p] = "fl_write"
    /\ MutexFree(m_BuffMutex, p)
    /\ m_BuffMutex' = MutexLock(m_BuffMutex, p)
    /\ ppc' = [ppc EXCEPT ![p] = "wr_body"]
    /\ UNCHANGED <<coordVars, simpleVars, eventVars, utilVars, manip, tlogVars, created>>
    /\ UNCHANGED <<m_Os, m_Lock, m_Buffer, m_Of, m_Continue, m_ThreadStarted,
                   files, outBuffer, opc, dpc, nextTok, setFiles, crashed,
                   accepted, refused>>

\* Mutant: the wait for the buffer lock has no bound.
WriteWaitsForever(p) == FALSE

\* The wait in LogImpl::Write can time out now.
WriteCanTimeOut(p) == MutexBusy(m_BuffMutex, p)

\* Mutant: the text is saved although the wait timed out.
WriteTimeoutSaves(p) ==
    /\ ~crashed
    /\ ppc[p] = "fl_write"
    /\ WriteCanTimeOut(p)
    /\ ppc' = [ppc EXCEPT ![p] = "fl_false"]
    /\ m_Buffer' = m_Buffer \o m_Os
    /\ refused' = refused \cup Range(m_Os)
    /\ UNCHANGED <<coordVars, simpleVars, eventVars, utilVars, manip, tlogVars, created>>
    /\ UNCHANGED <<m_Os, m_Lock, m_BuffMutex, m_Of, m_Continue,
                   m_ThreadStarted, files, outBuffer, opc, dpc, nextTok,
                   setFiles, crashed, accepted>>

\* LogImpl::Write: the bounded wait timed out; return false.
WriteTimeout(p) ==
    /\ ~crashed
    /\ ppc[p] = "fl_write"
    /\ WriteCanTimeOut(p)
    /\ ppc' = [ppc EXCEPT ![p] = "fl_false"]
    /\ refused' = refused \cup Range(m_Os)
    /\ UNCHANGED <<coordVars, simpleVars, eventVars, utilVars, manip, tlogVars, created>>
    /\ UNCHANGED <<m_Os, m_Lock, m_Buffer, m_BuffMutex, m_Of, m_Continue,
                   m_ThreadStarted, files, outBuffer, opc, dpc, nextTok,
                   setFiles, crashed, accepted>>

\* LogImpl::Write on a writer whose StartThread never ran: m_BuffMutex is
\* a null pointer and the call through it is an access violation.
WriteNoMutex(p) ==
    /\ ~crashed
    /\ ppc[p] = "fl_write"
    /\ m_BuffMutex.state = "absent"
    /\ crashed' = TRUE
    /\ UNCHANGED <<coordVars, simpleVars, eventVars, utilVars, manip, tlogVars, created>>
    /\ UNCHANGED <<m_Os, m_Lock, m_Buffer, m_BuffMutex, m_Of, m_Continue,
                   m_ThreadStarted, files, outBuffer, ppc, opc, dpc, nextTok,
                   setFiles, accepted, refused>>

\* Mutant: the text is put in front of the pending text.
WriteAppendFront(buffer, os) == os \o buffer

\* The pending accumulator after m_Buffer << os.str().
WriteAppend(buffer, os) == buffer \o os

\* LogImpl::Write without its m_BuffMutex->Unlock().
WriteBodyKeepsLock(p) ==
    /\ ~crashed
    /\ ppc[p] = "wr_body"
    /\ m_Buffer' = WriteAppend(m_Buffer, m_Os)
    /\ accepted' = accepted \o m_Os
    /\ ppc' = [ppc EXCEPT ![p] = "fl_true"]
    /\ UNCHANGED <<coordVars, simpleVars, eventVars, utilVars, manip, tlogVars, created>>
    /\ UNCHANGED <<m_Os, m_Lock, m_BuffMutex, m_Of, m_Continue,
                   m_ThreadStarted, files, outBuffer, opc, dpc, nextTok,
                   setFiles, crashed, refused>>

\* LogImpl::Write: m_Buffer << os.str(); m_BuffMutex->Unlock(); return true
WriteBody(p) ==
    /\ ~crashed
    /\ ppc[p] = "wr_body"
    /\ m_Buffer' = WriteAppend(m_Buffer, m_Os)
    /\ accepted' = accepted \o m_Os
    /\ m_BuffMutex' = MutexUnlock(m_BuffMutex, p)
    /\ ppc' = [ppc EXCEPT ![p] = "fl_true"]
    /\ UNCHANGED <<coordVars, simpleVars, eventVars, utilVars, manip, tlogVars, created>>
    /\ UNCHANGED <<m_Os, m_Lock, m_Of, m_Continue, m_ThreadStarted, files,
                   outBuffer, opc, dpc, nextTok, setFiles, crashed, refused>>

\* Logger::Flush after Write returned true: m_Os.str(""); ~ScopeLock
FlushWritten(p) ==
    /\ ~crashed
    /\ ppc[p] = "fl_true"
    /\ m_Os' = <<>>
    /\ m_Lock' = MutexUnlock(m_Lock, p)
    /\ ppc' = [ppc EXCEPT ![p] = IF manip[p] THEN "mn_ret" ELSE "idle"]
    /\ UNCHANGED <<coordVars, simpleVars, eventVars, utilVars, manip, tlogVars, created>>
    /\ UNCHANGED <<m_Buffer, m_BuffMutex, m_Of, m_Continue, m_ThreadStarted,
                   files, outBuffer, opc, dpc, nextTok, setFiles, crashed,
                   accepted, refused>>

\* Mutant: Flush clears the stream whatever Write returned.
FlushDrops(os) == <<>>

\* The front buffer when Flush returns after Write returned false.
FlushKeeps(os) == os

\* Logger::Flush after Write returned false: m_Os is left as it is;
\* ~ScopeLock
FlushNotWritten(p) ==
    /\ ~crashed
    /\ ppc[p] = "fl_false"
    /\ m_Os' = FlushKeeps(m_Os)
    /\ m_Lock' = MutexUnlock(m_Lock, p)
    /\ ppc' = [ppc EXCEPT ![p] = IF manip[p] THEN "mn_ret" ELSE "idle"]
    /\ UNCHANGED <<coordVars, simpleVars, eventVars, utilVars, manip, tlogVars, created>>
    /\ UNCHANGED <<m_Buffer, m_BuffMutex, m_Of, m_Continue, m_ThreadStarted,
                   files, outBuffer, opc, dpc, nextTok, setFiles, crashed,
                   accepted, refused>>

ProducerStep(p) ==
    \/ CallInsert(p) \/ InsertLock(p) \/ InsertBody(p)
    \/ CallFlush(p) \/ FlushLock(p)
    \/ WriteAcquire(p) \/ WriteTimeout(p) \/ WriteNoMutex(p) \/ WriteBody(p)
    \/ FlushWritten(p) \/ FlushNotWritten(p)

\* ------------------------------------------- drain thread (LogThreadFunc)
\* while(log->m_Continue)
DrainLoop ==
    /\ ~crashed
    /\ dpc = "loop"
    /\ dpc' = IF m_Continue THEN "lock" ELSE "done"
    /\ UNCHANGED <<coordVars, simpleVars, eventVars, utilVars, manip, tlogVars, created>>
    /\ UNCHANGED <<m_Os, m_Lock, m_Buffer, m_BuffMutex, m_Of, m_Continue,
                   m_ThreadStarted, files, outBuffer, ppc, opc, nextTok,
                   setFiles, crashed, accepted, refused>>

\* ScopeLock al(log->m_BuffMutex): waits without bound.
DrainLock ==
    /\ ~crashed
    /\ dpc = "lock"
    /\ MutexFree(m_BuffMutex, DrainThread)
    /\ m_BuffMutex' = MutexLock(m_BuffMutex, DrainThread)
    /\ dpc' = "copy"
    /\ UNCHANGED <<coordVars, simpleVars, eventVars, utilVars, manip, tlogVars, created>>
    /\ UNCHANGED <<m_Os, m_Lock, m_Buffer, m_Of, m_Continue, m_ThreadStarted,
                   files, outBuffer, ppc, opc, nextTok, setFiles, crashed,
                   accepted, refused>>

\* ScopeLock on a buffer lock that ~LogImpl has already deleted: the wait
\* on the closed handle fails, Mutex::Lock raises nik::Error, and the
\* error leaves the thread function.
DrainLockDeleted ==
    /\ ~crashed
    /\ dpc = "lock"
    /\ m_BuffMutex.state = "deleted"
    /\ crashed' = TRUE
    /\ UNCHANGED <<coordVars, simpleVars, eventVars, utilVars, manip, tlogVars, created>>
    /\ UNCHANGED <<m_Os, m_Lock, m_Buffer, m_BuffMutex, m_Of, m_Continue,
                   m_ThreadStarted, files, outBuffer, ppc, opc, dpc, nextTok,
                   setFiles, accepted, refused>>

\* The local outBuffer after outBuffer << log->m_Buffer.str().
DrainTake(out, buffer) == out \o buffer

\* The pending accumulator after log->m_Buffer.str("").
DrainLeaves(buffer) == <<>>

\* Mutant: the lock is kept over the write to the stream.
DrainKeepsLock(m) == m

\* The buffer lock when the scope of the copy ends (~ScopeLock).
DrainRelease(m) == MutexUnlock(m, DrainThread)

\* outBuffer << log->m_Buffer.str(); log->m_Buffer.str(""); ~ScopeLock
DrainCopy ==
    /\ ~crashed
    /\ dpc = "copy"
    /\ outBuffer' = DrainTake(outBuffer, m_Buffer)
    /\ m_Buffer' = DrainLeaves(m_Buffer)
    /\ m_BuffMutex' = DrainRelease(m_BuffMutex)
    /\ dpc' = "write"
    /\ UNCHANGED <<coordVars, simpleVars, eventVars, utilVars, manip, tlogVars, created>>
    /\ UNCHANGED <<m_Os, m_Lock, m_Of, m_Continue, m_ThreadStarted, files,
                   ppc, opc, nextTok, setFiles, crashed, accepted, refused>>

\* log->m_Of << outBuffer.str(); outBuffer.str("")
DrainWrite ==
    /\ ~crashed
    /\ dpc = "write"
    /\ m_Of' = StreamWrite(m_Of, outBuffer)
    /\ outBuffer' = <<>>
    /\ dpc' = "flush"
    /\ UNCHANGED <<coordVars, simpleVars, eventVars, utilVars, manip, tlogVars, created>>
    /\ UNCHANGED <<m_Os, m_Lock, m_Buffer, m_BuffMutex, m_Continue,
                   m_ThreadStarted, files, ppc, opc, nextTok, setFiles,
                   crashed, accepted, refused>>

\* log->m_Of << outBuffer.str() while ~LogImpl is at its own insertion
\* into m_Of (ForceWrite): the two insertions are not ordered by any lock,
\* and one outcome of the race is that only a part of outBuffer is in the
\* stream when the other insertion takes place.
DrainWriteTorn ==
    /\ ~crashed
    /\ dpc = "write"
    /\ opc = "td_force"
    /\ \E n \in 1..(Len(outBuffer) - 1) :
          /\ m_Of' = StreamWrite(m_Of, SubSeq(outBuffer, 1, n))
          /\ outBuffer' = SubSeq(outBuffer, n + 1, Len(outBuffer))
    /\ UNCHANGED <<coordVars, simpleVars, eventVars, utilVars, manip, tlogVars, created>>
    /\ UNCHANGED <<m_Os, m_Lock, m_Buffer, m_BuffMutex, m_Continue,
                   m_ThreadStarted, files, ppc, opc, dpc, nextTok, setFiles,
                   crashed, accepted, refused>>

\* log->m_Of.flush(); Sleep(25)
DrainFlush ==
    /\ ~crashed
    /\ dpc = "flush"
    /\ files' = Synced(m_Of, files)
    /\ m_Of' = StreamFlush(m_Of)
    /\ dpc' = "loop"
    /\ UNCHANGED <<coordVars, simpleVars, eventVars, utilVars, manip, tlogVars, created>>
    /\ UNCHANGED <<m_Os, m_Lock, m_Buffer, m_BuffMutex, m_Continue,
                   m_ThreadStarted, outBuffer, ppc, opc, nextTok, setFiles,
                   crashed, accepted, refused>>

\* The drain thread touches the LogImpl after ~LogImpl has returned and the
\* object's storage is released: besides reading the stale contents (the
\* steps above), the access can fault.
DrainUseAfterFree ==
    /\ ~crashed
    /\ opc = "gone"
    /\ dpc \in {"loop", "lock", "copy", "write", "flush"}
    /\ crashed' = TRUE
    /\ UNCHANGED <<coordVars, simpleVars, eventVars, utilVars, manip, tlogVars, created>>
    /\ UNCHANGED <<m_Os, m_Lock, m_Buffer, m_BuffMutex, m_Of, m_Continue,
                   m_ThreadStarted, files, outBuffer, ppc, opc, dpc, nextTok,
                   setFiles, accepted, refused>>

DrainStep ==
    \/ DrainLoop \/ DrainLock \/ DrainLockDeleted \/ DrainCopy
    \/ DrainWrite \/ DrainWriteTorn \/ DrainFlush \/ DrainUseAfterFree

\* ------------------------------------------------ owning thread: SetFile
\* Logger::SetFile -> LogImpl::OpenFile: if(m_Of.is_open())
CallSetFile ==
    /\ ~crashed
    /\ opc = "idle" /\ setFiles < MaxSetFile
    /\ setFiles' = setFiles + 1
    /\ opc' = IF m_Of.open THEN "sf_close" ELSE "sf_open"
    /\ UNCHANGED <<coordVars, simpleVars, eventVars, utilVars, manip, tlogVars, created>>
    /\ UNCHANGED <<m_Os, m_Lock, m_Buffer, m_BuffMutex, m_Of, m_Continue,
                   m_ThreadStarted, files, outBuffer, ppc, dpc, nextTok,
                   crashed, accepted, refused>>

\* LogImpl::CloseFile called from OpenFile: m_Of.close()
OpenFileClose ==
    /\ ~crashed
    /\ opc = "sf_close"
    /\ files' = Synced(m_Of, files)
    /\ m_Of' = StreamClose(m_Of)
    /\ opc' = "sf_open"
    /\ UNCHANGED <<coordVars, simpleVars, eventVars, utilVars, manip, tlogVars, created>>
    /\ UNCHANGED <<m_Os, m_Lock, m_Buffer, m_BuffMutex, m_Continue,
                   m_ThreadStarted, outBuffer, ppc, dpc, nextTok, setFiles,
                   crashed, accepted, refused>>

\* LogImpl::OpenFile: m_Of.open(fileName); if(!m_Of) return false.  The
\* file name and whether the operating system opens it are inputs.
OpenFileOpen ==
    /\ ~crashed
    /\ opc = "sf_open"
    /\ \E name \in FileNames, ok \in BOOLEAN :
          /\ files' = Truncated(m_Of, files, name, ok)
          /\ m_Of' = StreamOpen(m_Of, name, ok)
    /\ opc' = IF m_Of'.fail THEN "idle" ELSE "sf_start"
    /\ UNCHANGED <<coordVars, simpleVars, eventVars, utilVars, manip, tlogVars, created>>
    /\ UNCHANGED <<m_Os, m_Lock, m_Buffer, m_BuffMutex, m_Continue,
                   m_ThreadStarted, outBuffer, ppc, dpc, nextTok, setFiles,
                   crashed, accepted, refused>>

\* A StartThread without the m_ThreadStarted test: a later activation
\* creates the lock and the thread again.
StartThreadAgainCreates ==
    /\ ~crashed
    /\ opc = "sf_start"
    /\ m_ThreadStarted
    /\ m_BuffMutex' = MutexCreate
    /\ m_Continue' = TRUE
    /\ dpc' = "loop"
    /\ created' = [threads |-> created.threads + 1,
                   locks |-> created.locks + 1]
    /\ opc' = "idle"
    /\ UNCHANGED <<coordVars, simpleVars, eventVars, utilVars, manip, tlogVars>>
    /\ UNCHANGED <<m_Os, m_Lock, m_Buffer, m_Of, m_ThreadStarted, files,
                   outBuffer, ppc, nextTok, setFiles, crashed, accepted,
                   refused>>

\* LogImpl::StartThread on a writer already started: return.
StartThreadAgain ==
    /\ ~crashed
    /\ opc = "sf_start"
    /\ m_ThreadStarted
    /\ opc' = "idle"
    /\ UNCHANGED <<coordVars, simpleVars, eventVars, utilVars, manip, tlogVars, created>>
    /\ UNCHANGED <<m_Os, m_Lock, m_Buffer, m_BuffMutex, m_Of, m_Continue,
                   m_ThreadStarted, files, outBuffer, ppc, dpc, nextTok,
                   setFiles, crashed, accepted, refused>>

\* LogImpl::StartThread, first call: m_ThreadStarted = true; m_BuffMutex =
\* Mutex::Create(); m_Continue = true; the thread is created and started.
StartThread ==
    /\ ~crashed
    /\ opc = "sf_start"
    /\ ~m_ThreadStarted
    /\ m_ThreadStarted' = TRUE
    /\ m_BuffMutex' = MutexCreate
    /\ m_Continue' = TRUE
    /\ dpc' = "loop"
    /\ created' = [threads |-> created.threads + 1,
                   locks |-> created.locks + 1]
    /\ opc' = "idle"
    /\ UNCHANGED <<coordVars, simpleVars, eventVars, utilVars, manip, tlogVars>>
    /\ UNCHANGED <<m_Os, m_Lock, m_Buffer, m_Of, files, outBuffer, ppc,
                   nextTok, setFiles, crashed, accepted, refused>>

\* ----------------------------------------------- owning thread: teardown
\* The Logger is destroyed once no producer is inside one of its calls.
ProducersQuiet == \A p \in Producers : ppc[p] = "idle"

\* A ~LogImpl without the m_ThreadStarted test: what is left in the front
\* buffer is forced into the stream although the writer never started.
TeardownNeverStartedForces ==
    /\ ~crashed
    /\ opc = "idle" /\ ProducersQuiet
    /\ ~m_ThreadStarted
    /\ m_Lock' = MutexDelete(m_Lock)
    /\ files' = files
    /\ m_Of' = StreamWrite(m_Of, m_Os)
    /\ opc' = "gone"
    /\ UNCHANGED <<coordVars, simpleVars, eventVars, utilVars, manip, tlogVars, created>>
    /\ UNCHANGED <<m_Os, m_Buffer, m_BuffMutex, m_Continue, m_ThreadStarted,
                   outBuffer, ppc, dpc, nextTok, setFiles, crashed, accepted,
                   refused>>

\* ~Logger: delete m_Lock; delete m_LogImpl, on a writer that was never
\* started: ~LogImpl returns at once and the members are destroyed (the
\* stream's destructor closes its file).
TeardownNeverStarted ==
    /\ ~crashed
    /\ opc = "idle" /\ ProducersQuiet
    /\ ~m_ThreadStarted
    /\ m_Lock' = MutexDelete(m_Lock)
    /\ files' = Synced(m_Of, files)
    /\ m_Of' = [m_Of EXCEPT !.open = FALSE, !.buf = <<>>]
    /\ opc' = "gone"
    /\ UNCHANGED <<coordVars, simpleVars, eventVars, utilVars, manip, tlogVars, created>>
    /\ UNCHANGED <<m_Os, m_Buffer, m_BuffMutex, m_Continue, m_ThreadStarted,
                   outBuffer, ppc, dpc, nextTok, setFiles, crashed, accepted,
                   refused>>

\* ~Logger: delete m_Lock; ~LogImpl: m_Continue = false; Sleep(50)
TeardownBegin ==
    /\ ~crashed
    /\ opc = "idle" /\ ProducersQuiet
    /\ m_ThreadStarted
    /\ m_Lock' = MutexDelete(m_Lock)
    /\ m_Continue' = FALSE
    /\ opc' = "td_lock"
    /\ UNCHANGED <<coordVars, simpleVars, eventVars, utilVars, manip, tlogVars, created>>
    /\ UNCHANGED <<m_Os, m_Buffer, m_BuffMutex, m_Of, m_ThreadStarted, files,
                   outBuffer, ppc, dpc, nextTok, setFiles, crashed, accepted,
                   refused>>

\* ~LogImpl: ScopeLock al(m_BuffMutex): waits without bound.
TeardownLock ==
    /\ ~crashed
    /\ opc = "td_lock"
    /\ MutexFree(m_BuffMutex, OwnerThread)
    /\ m_BuffMutex' = MutexLock(m_BuffMutex, OwnerThread)
    /\ opc' = "td_force"
    /\ UNCHANGED <<coordVars, simpleVars, eventVars, utilVars, manip, tlogVars, created>>
    /\ UNCHANGED <<m_Os, m_Lock, m_Buffer, m_Of, m_Continue, m_ThreadStarted,
                   files, outBuffer, ppc, dpc, nextTok, setFiles, crashed,
                   accepted, refused>>

\* What LogImpl::ForceWrite inserts into m_Of: m_Buffer << m_Log->m_Os.str();
\* m_Of << m_Buffer.str()
ForceText(buffer, os) == buffer \o os

\* ~LogImpl: ForceWrite() (which also empties m_Os and m_Buffer);
\* ~ScopeLock
TeardownForceWrite ==
    /\ ~crashed
    /\ opc = "td_force"
    /\ m_Of' = StreamWrite(m_Of, ForceText(m_Buffer, m_Os))
    /\ m_Os' = <<>>
    /\ m_Buffer' = <<>>
    /\ m_BuffMutex' = MutexUnlock(m_BuffMutex, OwnerThread)
    /\ opc' = "td_delete"
    /\ UNCHANGED <<coordVars, simpleVars, eventVars, utilVars, manip, tlogVars, created>>
    /\ UNCHANGED <<m_Lock, m_Continue, m_ThreadStarted, files, outBuffer,
                   ppc, dpc, nextTok, setFiles, crashed, accepted, refused>>

\* ~LogImpl: delete m_ThreadHandle (the handle is closed, the thread is
\* neither joined nor terminated); delete m_BuffMutex
TeardownDelete ==
    /\ ~crashed
    /\ opc = "td_delete"
    /\ m_BuffMutex' = MutexDelete(m_BuffMutex)
    /\ opc' = "td_close"
    /\ UNCHANGED <<coordVars, simpleVars, eventVars, utilVars, manip, tlogVars, created>>
    /\ UNCHANGED <<m_Os, m_Lock, m_Buffer, m_Of, m_Continue, m_ThreadStarted,
                   files, outBuffer, ppc, dpc, nextTok, setFiles, crashed,
                   accepted, refused>>

\* ~LogImpl: CloseFile(), then the members are destroyed.
TeardownClose ==
    /\ ~crashed
    /\ opc = "td_close"
    /\ files' = Synced(m_Of, files)
    /\ m_Of' = [m_Of EXCEPT !.open = FALSE, !.buf = <<>>]
    /\ opc' = "gone"
    /\ UNCHANGED <<coordVars, simpleVars, eventVars, utilVars, manip, tlogVars, created>>
    /\ UNCHANGED <<m_Os, m_Lock, m_Buffer, m_BuffMutex, m_Continue,
                   m_ThreadStarted, outBuffer, ppc, dpc, nextTok, setFiles,
                   crashed, accepted, refused>>

OwnerStep ==
    \/ CallSetFile \/ OpenFileClose \/ OpenFileOpen
    \/ StartThreadAgain \/ StartThread
    \/ TeardownNeverStarted \/ TeardownBegin \/ TeardownLock
    \/ TeardownForceWrite \/ TeardownDelete \/ TeardownClose

\* ------------------------------------------------------- the log writer
\* ------------------------------------- operator<<(ManipFunc_t) with endl
\* A producer calls log << endl.
CallEndl(p) ==
    /\ ~crashed /\ ~TeardownBegun
    /\ ppc[p] = "idle" /\ tpc[p] = "none"
    /\ Inserted(Producers) + Cardinality(Inserting) + TInserted(Producers)
          < MaxAppend
    /\ ppc' = [ppc EXCEPT ![p] = "mn_lock"]
    /\ UNCHANGED <<coordVars, simpleVars, eventVars, utilVars, manip, tlogVars, created>>
    /\ UNCHANGED <<m_Os, m_Lock, m_Buffer, m_BuffMutex, m_Of, m_Continue,
                   m_ThreadStarted, files, outBuffer, opc, dpc, nextTok,
                   setFiles, crashed, accepted, refused>>

\* ScopeLock al(m_Lock) in operator<<(ManipFunc_t); op(*this) is entered:
\* endl's first statement is logger << "\n".
ManipLock(p) ==
    /\ ~crashed
    /\ ppc[p] = "mn_lock"
    /\ MutexFree(m_Lock, p)
    /\ m_Lock' = MutexLock(m_Lock, p)
    /\ manip' = [manip EXCEPT ![p] = TRUE]
    /\ ppc' = [ppc EXCEPT ![p] = "ins_lock"]
    /\ UNCHANGED <<coordVars, simpleVars, eventVars, utilVars, tlogVars, created>>
    /\ UNCHANGED <<m_Os, m_Buffer, m_BuffMutex, m_Of, m_Continue,
                   m_ThreadStarted, files, outBuffer, opc, dpc, nextTok,
                   setFiles, crashed, accepted, refused>>

\* endl returns logger; operator<<(ManipFunc_t) returns; ~ScopeLock
ManipReturn(p) ==
    /\ ~crashed
    /\ ppc[p] = "mn_ret"
    /\ m_Lock' = MutexUnlock(m_Lock, p)
    /\ manip' = [manip EXCEPT ![p] = FALSE]
    /\ ppc' = [ppc EXCEPT ![p] = "idle"]
    /\ UNCHANGED <<coordVars, simpleVars, eventVars, utilVars, tlogVars, created>>
    /\ UNCHANGED <<m_Os, m_Buffer, m_BuffMutex, m_Of, m_Continue,
                   m_ThreadStarted, files, outBuffer, opc, dpc, nextTok,
                   setFiles, crashed, accepted, refused>>

EndlStep(p) == CallEndl(p) \/ ManipLock(p) \/ ManipReturn(p)

LogNext ==
    \/ \E p \in Producers : ProducerStep(p)
    \/ DrainStep
    \/ OwnerStep

Init == LogInit /\ CoordInit /\ SimpleInit /\ EventInit /\ TimerInit
        /\ CmdInit /\ ObsInit /\ ObjInit

SpecLogger == Init /\ [][LogNext]_vars

\* The writer used with endl as well.
ManipNext == LogNext \/ \E p \in Producers : EndlStep(p)

SpecManip == Init /\ [][ManipNext]_vars

\* A producer inside a call goes on: it takes a step that stays possible,
\* and it gets the front lock if the lock is free again and again.
\* Nothing is assumed of the drain thread or of the owning thread, which
\* may stop anywhere, also while holding the buffer lock.
ProducerFairness(p) ==
    /\ WF_vars(InsertBody(p) \/ WriteAcquire(p) \/ WriteTimeout(p)
                 \/ WriteNoMutex(p) \/ WriteBody(p) \/ FlushWritten(p)
                 \/ FlushNotWritten(p))
    /\ SF_vars(InsertLock(p))
    /\ SF_vars(FlushLock(p))

FairProducers == SpecLogger /\ \A p \in Producers : ProducerFairness(p)

\* In addition the drain thread is scheduled fairly and gets the buffer
\* lock if the lock is free again and again.
FairDrain ==
    /\ FairProducers
    /\ WF_vars(DrainLoop \/ DrainCopy \/ DrainWrite \/ DrainFlush)
    /\ SF_vars(DrainLock)

\* ------------------------------------------------- nik::Event (Event.cpp)
\* A manual-reset Win32 event: "absent" (null pointer), "clear" or "set".
\* Event::Create returns a new, non-signaled event, or 0 if CreateEvent
\* failed (the nik::Error of the constructor is caught in Create).
EventCreate(ok) == IF ok THEN "clear" ELSE "absent"

EventSet(e) == IF e = "absent" THEN e ELSE "set"

EventClear(e) == IF e = "absent" THEN e ELSE "clear"

\* WaitForEvent returns WAIT_SIGNALED; a wait never changes the event.
EventSignaled(e) == e = "set"

\* ------------------------------------------------------- ThreadCoord::Run
\* Number of Run calls made on the instance so far.
RECURSIVE TotalRuns(_)
TotalRuns(rs) ==
    IF rs = {} THEN 0
    ELSE LET r == CHOOSE q \in rs : TRUE
         IN  runs[r] + TotalRuns(rs \ {r})

\* A thread calls ThreadCoord::Run (ThreadObj::Run has started the thread
\* that runs ThreadObj::MyThreadFunction); no statement of Run has been
\* executed yet.
CallRun(r) ==
    /\ ~coordFault /\ dtor = "none"
    /\ rpc[r] = "idle" /\ runs[r] < MaxRuns
    /\ runs' = [runs EXCEPT ![r] = @ + 1]
    /\ rpc' = [rpc EXCEPT ![r] = "check"]
    /\ runOutcome' = [runOutcome EXCEPT ![r] = "none"]
    /\ sinceRun' = FALSE
    /\ signalled' = 0
    /\ falseCalls' = [falseCalls EXCEPT ![r] = 0]
    /\ UNCHANGED <<logVars, simpleVars, eventVars, utilVars, dtor>>
    /\ UNCHANGED <<m_IsRunning, m_StopEvent, m_ThreadStoppedEvent,
                   continueThread, cpc, coordFault, ctlOutcome>>

\* Run without the test of the running flag.
RunCheckReenters(r) ==
    /\ ~coordFault
    /\ rpc[r] = "check"
    /\ rpc' = [rpc EXCEPT ![r] = "mark"]
    /\ UNCHANGED <<logVars, simpleVars, eventVars, utilVars, dtor, falseCalls>>
    /\ UNCHANGED <<m_IsRunning, m_StopEvent, m_ThreadStoppedEvent,
                   continueThread, cpc, runs, coordFault, hist>>

\* if( m_IsRunning) { log a warning; return; }
RunCheck(r) ==
    /\ ~coordFault
    /\ rpc[r] = "check"
    /\ rpc' = [rpc EXCEPT ![r] = IF m_IsRunning THEN "idle" ELSE "mark"]
    /\ runOutcome' = [runOutcome EXCEPT ![r] =
                        IF m_IsRunning THEN "skipped" ELSE @]
    /\ UNCHANGED <<logVars, simpleVars, eventVars, utilVars, dtor, falseCalls>>
    /\ UNCHANGED <<m_IsRunning, m_StopEvent, m_ThreadStoppedEvent,
                   continueThread, cpc, runs, coordFault, ctlOutcome,
                   sinceRun, signalled>>

\* m_IsRunning = true; if(!m_StopEvent)
RunMark(r) ==
    /\ ~coordFault
    /\ rpc[r] = "mark"
    /\ m_IsRunning' = TRUE
    /\ rpc' = [rpc EXCEPT ![r] =
                 IF m_StopEvent = "absent" THEN "create_stop" ELSE "reset_stop"]
    /\ runOutcome' = [runOutcome EXCEPT ![r] = "entered"]
    /\ UNCHANGED <<logVars, simpleVars, eventVars, utilVars, dtor, falseCalls>>
    /\ UNCHANGED <<m_StopEvent, m_ThreadStoppedEvent, continueThread, cpc,
                   runs, coordFault, ctlOutcome, sinceRun, signalled>>

\* m_StopEvent = Event::Create(); assert(m_StopEvent).  Create may return
\* 0; the assertion then ends the process in a build with assertions and
\* is no statement at all in a build with NDEBUG.
RunCreateStop(r) ==
    /\ ~coordFault
    /\ rpc[r] = "create_stop"
    /\ \E ok \in BOOLEAN, asserts \in BOOLEAN :
          /\ m_StopEvent' = EventCreate(ok)
          /\ coordFault' = (~ok /\ asserts)
          /\ rpc' = [rpc EXCEPT ![r] =
                       IF ~ok /\ asserts THEN @ ELSE "create_stopped"]
          /\ runOutcome' = [runOutcome EXCEPT ![r] =
                              IF ok THEN @ ELSE "create_failed"]
    /\ UNCHANGED <<logVars, simpleVars, eventVars, utilVars, dtor, falseCalls>>
    /\ UNCHANGED <<m_IsRunning, m_ThreadStoppedEvent, continueThread, cpc,
                   runs, ctlOutcome, sinceRun, signalled>>

\* m_ThreadStoppedEvent = Event::Create(); assert(m_ThreadStoppedEvent).
\* A thread blocked in a wait on the event object that was stored in the
\* field before is not released by a SetEvent on the new object.
RunCreateStopped(r) ==
    /\ ~coordFault
    /\ rpc[r] = "create_stopped"
    /\ \E ok \in BOOLEAN, asserts \in BOOLEAN :
          /\ m_ThreadStoppedEvent' = EventCreate(ok)
          /\ coordFault' = (~ok /\ asserts)
          /\ rpc' = [rpc EXCEPT ![r] =
                       IF ~ok /\ asserts THEN @ ELSE "reset_stop"]
          /\ runOutcome' = [runOutcome EXCEPT ![r] =
                              IF ok THEN @ ELSE "create_failed"]
    /\ cpc' = IF cpc = "waiting" THEN "orphaned" ELSE cpc
    /\ UNCHANGED <<logVars, simpleVars, eventVars, utilVars, dtor, falseCalls>>
    /\ UNCHANGED <<m_IsRunning, m_StopEvent, continueThread, runs,
                   ctlOutcome, sinceRun, signalled>>

\* A Reset that leaves the stop signal as it is.
ResetKeepsStop(e) == e

\* The stop signal after Reset's m_StopEvent->ClearEvent().
ResetStop(e) == EventClear(e)

\* Reset(): m_StopEvent->ClearEvent(), a call through a null pointer
\* if the signal is absent.
RunResetStop(r) ==
    /\ ~coordFault
    /\ rpc[r] = "reset_stop"
    /\ m_StopEvent' = ResetStop(m_StopEvent)
    /\ coordFault' = (m_StopEvent = "absent")
    /\ rpc' = [rpc EXCEPT ![r] =
                 IF m_StopEvent = "absent" THEN @ ELSE "reset_stopped"]
    /\ UNCHANGED <<logVars, simpleVars, eventVars, utilVars, dtor, falseCalls>>
    /\ UNCHANGED <<m_IsRunning, m_ThreadStoppedEvent, continueThread, cpc,
                   runs, hist>>

\* Reset(): m_ThreadStoppedEvent->ClearEvent(); bool continueThread = true
RunResetStopped(r) ==
    /\ ~coordFault
    /\ rpc[r] = "reset_stopped"
    /\ m_ThreadStoppedEvent' = EventClear(m_ThreadStoppedEvent)
    /\ coordFault' = (m_ThreadStoppedEvent = "absent")
    /\ continueThread' = [continueThread EXCEPT ![r] = TRUE]
    /\ rpc' = [rpc EXCEPT ![r] =
                 IF m_ThreadStoppedEvent = "absent" THEN @ ELSE "work"]
    /\ UNCHANGED <<logVars, simpleVars, eventVars, utilVars, dtor, falseCalls>>
    /\ UNCHANGED <<m_IsRunning, m_StopEvent, cpc, runs, hist>>

\* while(m_UserFunc.Run(continueThread)): the loop without the test of the
\* flag.
RunWorkIgnoresFlag(r) ==
    /\ ~coordFault
    /\ rpc[r] = "work"
    /\ \E keepGoing \in BOOLEAN :
          rpc' = [rpc EXCEPT ![r] = IF keepGoing THEN "poll" ELSE "exit"]
    /\ falseCalls' = [falseCalls EXCEPT ![r] =
                        IF continueThread[r] THEN @ ELSE @ + 1]
    /\ UNCHANGED <<logVars, simpleVars, eventVars, utilVars, dtor>>
    /\ UNCHANGED <<m_IsRunning, m_StopEvent, m_ThreadStoppedEvent,
                   continueThread, cpc, runs, coordFault, hist>>

\* while(m_UserFunc.Run(continueThread) && continueThread): the work
\* function returns, and its result is an input.
RunWork(r) ==
    /\ ~coordFault
    /\ rpc[r] = "work"
    /\ \E keepGoing \in BOOLEAN :
          rpc' = [rpc EXCEPT ![r] =
                    IF keepGoing /\ continueThread[r] THEN "poll" ELSE "exit"]
    /\ falseCalls' = [falseCalls EXCEPT ![r] =
                        IF continueThread[r] THEN @ ELSE @ + 1]
    /\ UNCHANGED <<logVars, simpleVars, eventVars, utilVars, dtor>>
    /\ UNCHANGED <<m_IsRunning, m_StopEvent, m_ThreadStoppedEvent,
                   continueThread, cpc, runs, coordFault, hist>>

\* m_StopEvent->WaitForEvent(0); if signaled, continueThread = false
RunPoll(r) ==
    /\ ~coordFault
    /\ rpc[r] = "poll"
    /\ continueThread' = [continueThread EXCEPT ![r] =
                            IF EventSignaled(m_StopEvent) THEN FALSE ELSE @]
    /\ coordFault' = (m_StopEvent = "absent")
    /\ rpc' = [rpc EXCEPT ![r] =
                 IF m_StopEvent = "absent" THEN @ ELSE "work"]
    /\ UNCHANGED <<logVars, simpleVars, eventVars, utilVars, dtor, falseCalls>>
    /\ UNCHANGED <<m_IsRunning, m_StopEvent, m_ThreadStoppedEvent, cpc, runs,
                   hist>>

\* Run leaves the loop and keeps the running flag set.
RunUnmarkKeepsFlag(r) ==
    /\ ~coordFault
    /\ rpc[r] = "exit"
    /\ rpc' = [rpc EXCEPT ![r] = "stopped"]
    /\ UNCHANGED <<logVars, simpleVars, eventVars, utilVars, dtor, falseCalls>>
    /\ UNCHANGED <<m_IsRunning, m_StopEvent, m_ThreadStoppedEvent,
                   continueThread, cpc, runs, coordFault, hist>>

\* m_IsRunning = false
RunUnmark(r) ==
    /\ ~coordFault
    /\ rpc[r] = "exit"
    /\ m_IsRunning' = FALSE
    /\ rpc' = [rpc EXCEPT ![r] = "stopped"]
    /\ UNCHANGED <<logVars, simpleVars, eventVars, utilVars, dtor, falseCalls>>
    /\ UNCHANGED <<m_StopEvent, m_ThreadStoppedEvent, continueThread, cpc,
                   runs, coordFault, hist>>

\* m_ThreadStoppedEvent->SetEvent(): setting a manual-reset event releases
\* the thread blocked in a wait on it.
RunSetStopped(r) ==
    /\ ~coordFault
    /\ rpc[r] = "stopped"
    /\ m_ThreadStoppedEvent' = EventSet(m_ThreadStoppedEvent)
    /\ coordFault' = (m_ThreadStoppedEvent = "absent")
    /\ cpc' = IF cpc = "waiting" /\ m_ThreadStoppedEvent # "absent"
              THEN "released" ELSE cpc
    /\ rpc' = [rpc EXCEPT ![r] =
                 IF m_ThreadStoppedEvent = "absent" THEN @ ELSE "idle"]
    /\ UNCHANGED <<logVars, simpleVars, eventVars, utilVars, dtor, falseCalls>>
    /\ UNCHANGED <<m_IsRunning, m_StopEvent, continueThread, runs, hist>>

RunStep(r) ==
    \/ RunCheck(r) \/ RunMark(r) \/ RunCreateStop(r) \/ RunCreateStopped(r)
    \/ RunResetStop(r) \/ RunResetStopped(r) \/ RunWork(r) \/ RunPoll(r)
    \/ RunUnmark(r) \/ RunSetStopped(r)

\* ------------------------------- ThreadCoord::SignalStop and WaitForStop
\* The controlling thread calls SignalStop.
CallSignalStop ==
    /\ ~coordFault /\ dtor = "none"
    /\ cpc = "idle"
    /\ cpc' = "ss_check"
    /\ ctlOutcome' = "none"
    /\ sinceRun' = TRUE
    /\ UNCHANGED <<logVars, simpleVars, eventVars, utilVars, dtor, falseCalls>>
    /\ UNCHANGED <<m_IsRunning, m_StopEvent, m_ThreadStoppedEvent, rpc,
                   continueThread, runs, coordFault, runOutcome, signalled>>

\* SignalStop: if( !m_IsRunning) { log; return; }
SignalStopCheck ==
    /\ ~coordFault
    /\ cpc = "ss_check"
    /\ cpc' = IF m_IsRunning THEN "signal" ELSE "idle"
    /\ ctlOutcome' = IF m_IsRunning THEN ctlOutcome ELSE "signal_skipped"
    /\ UNCHANGED <<logVars, simpleVars, eventVars, utilVars, dtor, falseCalls>>
    /\ UNCHANGED <<m_IsRunning, m_StopEvent, m_ThreadStoppedEvent, rpc,
                   continueThread, runs, coordFault, runOutcome, sinceRun,
                   signalled>>

\* SignalStop: assert(m_StopEvent); m_StopEvent->SetEvent()
SignalStopSet ==
    /\ ~coordFault
    /\ cpc = "signal"
    /\ m_StopEvent # "absent"
    /\ m_StopEvent' = EventSet(m_StopEvent)
    /\ cpc' = "idle"
    /\ ctlOutcome' = "signal_set"
    /\ signalled' = IF signalled < MaxSignals THEN signalled + 1 ELSE signalled
    /\ UNCHANGED <<logVars, simpleVars, eventVars, utilVars, dtor, falseCalls>>
    /\ UNCHANGED <<m_IsRunning, m_ThreadStoppedEvent, rpc, continueThread,
                   runs, coordFault, runOutcome, sinceRun>>

\* The controlling thread calls WaitForStop.
CallWaitForStop ==
    /\ ~coordFault /\ dtor = "none"
    /\ cpc = "idle"
    /\ cpc' = "ws_check"
    /\ ctlOutcome' = "none"
    /\ sinceRun' = TRUE
    /\ UNCHANGED <<logVars, simpleVars, eventVars, utilVars, dtor, falseCalls>>
    /\ UNCHANGED <<m_IsRunning, m_StopEvent, m_ThreadStoppedEvent, rpc,
                   continueThread, runs, coordFault, runOutcome, signalled>>

\* WaitForStop without the test of the running flag.
WaitForStopUnchecked ==
    /\ ~coordFault
    /\ cpc = "ws_check"
    /\ cpc' = "wait_set"
    /\ UNCHANGED <<logVars, simpleVars, eventVars, utilVars, dtor, falseCalls>>
    /\ UNCHANGED <<m_IsRunning, m_StopEvent, m_ThreadStoppedEvent, rpc,
                   continueThread, runs, coordFault, hist>>

\* WaitForStop: if( !m_IsRunning) { log; return; }
WaitForStopCheck ==
    /\ ~coordFault
    /\ cpc = "ws_check"
    /\ cpc' = IF m_IsRunning THEN "wait_set" ELSE "idle"
    /\ ctlOutcome' = IF m_IsRunning THEN ctlOutcome ELSE "wait_skipped"
    /\ UNCHANGED <<logVars, simpleVars, eventVars, utilVars, dtor, falseCalls>>
    /\ UNCHANGED <<m_IsRunning, m_StopEvent, m_ThreadStoppedEvent, rpc,
                   continueThread, runs, coordFault, runOutcome, sinceRun,
                   signalled>>

\* WaitForStop: assert(m_StopEvent); m_StopEvent->SetEvent()
WaitForStopSet ==
    /\ ~coordFault
    /\ cpc = "wait_set"
    /\ m_StopEvent # "absent"
    /\ m_StopEvent' = EventSet(m_StopEvent)
    /\ cpc' = "wait"
    /\ UNCHANGED <<logVars, simpleVars, eventVars, utilVars, dtor, falseCalls>>
    /\ UNCHANGED <<m_IsRunning, m_ThreadStoppedEvent, rpc, continueThread,
                   runs, coordFault, hist>>

\* WaitForStop: assert(m_ThreadStoppedEvent);
\* m_ThreadStoppedEvent->WaitForEvent(Event::FOREVER) is entered: it returns
\* at once if the event is set and blocks otherwise.
WaitForStopEnter ==
    /\ ~coordFault
    /\ cpc = "wait"
    /\ m_ThreadStoppedEvent # "absent"
    /\ cpc' = IF EventSignaled(m_ThreadStoppedEvent) THEN "idle" ELSE "waiting"
    /\ ctlOutcome' = IF EventSignaled(m_ThreadStoppedEvent)
                     THEN "wait_done" ELSE ctlOutcome
    /\ UNCHANGED <<logVars, simpleVars, eventVars, utilVars, dtor, falseCalls>>
    /\ UNCHANGED <<m_IsRunning, m_StopEvent, m_ThreadStoppedEvent, rpc,
                   continueThread, runs, coordFault, runOutcome, sinceRun,
                   signalled>>

\* WaitForStop: the blocked wait was released by SetEvent and returns.
WaitForStopReturn ==
    /\ ~coordFault
    /\ cpc = "released"
    /\ cpc' = "idle"
    /\ ctlOutcome' = "wait_done"
    /\ UNCHANGED <<logVars, simpleVars, eventVars, utilVars, dtor, falseCalls>>
    /\ UNCHANGED <<m_IsRunning, m_StopEvent, m_ThreadStoppedEvent, rpc,
                   continueThread, runs, coordFault, runOutcome, sinceRun,
                   signalled>>

\* SignalStop or WaitForStop uses a signal that is absent: the assertion
\* fails, or the call goes through a null pointer.
NullEventUse ==
    /\ ~coordFault
    /\ \/ cpc \in {"signal", "wait_set"} /\ m_StopEvent = "absent"
       \/ cpc = "wait" /\ m_ThreadStoppedEvent = "absent"
    /\ coordFault' = TRUE
    /\ UNCHANGED <<logVars, simpleVars, eventVars, utilVars, dtor, falseCalls>>
    /\ UNCHANGED <<m_IsRunning, m_StopEvent, m_ThreadStoppedEvent, rpc,
                   continueThread, cpc, runs, hist>>

ControlStep ==
    \/ SignalStopCheck \/ SignalStopSet
    \/ WaitForStopCheck \/ WaitForStopSet \/ WaitForStopEnter
    \/ WaitForStopReturn
    \/ NullEventUse

CoordNext ==
    \/ \E r \in Runners : CallRun(r) \/ RunStep(r)
    \/ CallSignalStop \/ CallWaitForStop
    \/ ControlStep

SpecCoord == Init /\ [][CoordNext]_vars

\* The loop thread and the controlling thread are scheduled fairly: a step
\* of a call in progress that stays possible is eventually taken.  Whether
\* Run, SignalStop or WaitForStop is called at all is left to the
\* environment.
FairCoord ==
    /\ SpecCoord
    /\ \A r \in Runners : WF_vars(RunStep(r))
    /\ WF_vars(ControlStep)

\* ------------------------------------ destruction (~ThreadObj, ~ThreadCoord)
\* ThreadObj::m_Thread is non-null: the thread was started and has not yet
\* come back from ThreadCoord::Run.
ThreadHandleHeld == \E r \in Runners : rpc[r] # "idle"

\* ~ThreadObj, run by the controlling thread: if( m_Thread)
\* m_ThreadCoord.WaitForStop()
DestroyBegin ==
    /\ ~coordFault
    /\ dtor = "none" /\ cpc = "idle"
    /\ dtor' = "obj"
    /\ cpc' = IF ThreadHandleHeld THEN "ws_check" ELSE "idle"
    /\ ctlOutcome' = "none"
    /\ sinceRun' = TRUE
    /\ UNCHANGED <<logVars, simpleVars, eventVars, utilVars, falseCalls>>
    /\ UNCHANGED <<m_IsRunning, m_StopEvent, m_ThreadStoppedEvent, rpc,
                   continueThread, runs, coordFault, runOutcome, signalled>>

\* ~ThreadObj: delete m_Thread (the handle is closed, the thread is neither
\* joined nor terminated); then ~ThreadCoord:
\* if(m_StopEvent || m_ThreadStoppedEvent) WaitForStop()
DestroyThread ==
    /\ ~coordFault
    /\ dtor = "obj" /\ cpc = "idle"
    /\ LET signals == m_StopEvent # "absent" \/ m_ThreadStoppedEvent # "absent"
       IN  /\ dtor' = IF signals THEN "coord" ELSE "done"
           /\ cpc' = IF signals THEN "ws_check" ELSE "idle"
           /\ ctlOutcome' = IF signals THEN "none" ELSE ctlOutcome
    /\ UNCHANGED <<logVars, simpleVars, eventVars, utilVars, falseCalls>>
    /\ UNCHANGED <<m_IsRunning, m_StopEvent, m_ThreadStoppedEvent, rpc,
                   continueThread, runs, coordFault, runOutcome, sinceRun,
                   signalled>>

\* ~ThreadCoord: delete m_StopEvent; delete m_ThreadStoppedEvent; the
\* storage of the object is released.
DestroyEvents ==
    /\ ~coordFault
    /\ dtor = "coord" /\ cpc = "idle"
    /\ dtor' = "done"
    /\ UNCHANGED <<logVars, simpleVars, eventVars, utilVars, falseCalls>>
    /\ UNCHANGED <<m_IsRunning, m_StopEvent, m_ThreadStoppedEvent, rpc,
                   continueThread, cpc, runs, coordFault, hist>>

\* A thread inside Run touches the coordinator after its destruction:
\* besides going on with the stale contents (the steps of Run), the access
\* can fault.
RunUseAfterFree(r) ==
    /\ ~coordFault
    /\ dtor = "done"
    /\ rpc[r] # "idle"
    /\ coordFault' = TRUE
    /\ UNCHANGED <<logVars, simpleVars, eventVars, utilVars, falseCalls>>
    /\ UNCHANGED <<m_IsRunning, m_StopEvent, m_ThreadStoppedEvent, rpc,
                   continueThread, cpc, runs, hist, dtor>>

DestroyStep ==
    \/ DestroyBegin \/ DestroyThread \/ DestroyEvents
    \/ \E r \in Runners : RunUseAfterFree(r)

\* The coordinator together with the destruction of its owner.
SpecLifetime == Init /\ [][CoordNext \/ DestroyStep]_vars

\* --------------------------------------------- waits that the system fails
\* The poll in Run, m_StopEvent->WaitForEvent(0), returns a value that is
\* neither WAIT_SIGNALED nor WAIT_TIMEDOUT: the result is compared with
\* WAIT_SIGNALED only, and the loop goes on.
RunPollFailed(r) ==
    /\ ~coordFault
    /\ rpc[r] = "poll"
    /\ m_StopEvent # "absent"
    /\ rpc' = [rpc EXCEPT ![r] = "work"]
    /\ runOutcome' = [runOutcome EXCEPT ![r] = "failure_ignored"]
    /\ UNCHANGED <<logVars, simpleVars, eventVars, utilVars, dtor, falseCalls>>
    /\ UNCHANGED <<m_IsRunning, m_StopEvent, m_ThreadStoppedEvent,
                   continueThread, cpc, runs, coordFault, ctlOutcome,
                   sinceRun, signalled>>

\* WaitForStop's m_ThreadStoppedEvent->WaitForEvent(Event::FOREVER) returns
\* such a value: the result is discarded and WaitForStop returns.
WaitForStopFailed ==
    /\ ~coordFault
    /\ cpc = "wait"
    /\ m_ThreadStoppedEvent # "absent"
    /\ cpc' = "idle"
    /\ ctlOutcome' = "failure_ignored"
    /\ UNCHANGED <<logVars, simpleVars, eventVars, utilVars, dtor, falseCalls>>
    /\ UNCHANGED <<m_IsRunning, m_StopEvent, m_ThreadStoppedEvent, rpc,
                   continueThread, runs, coordFault, runOutcome, sinceRun,
                   signalled>>

WaitFailStep ==
    \/ \E r \in Runners : RunPollFailed(r)
    \/ WaitForStopFailed

\* The coordinator on a system whose waits can fail.
SpecOsFaults == Init /\ [][CoordNext \/ WaitFailStep]_vars

\* ----------------------------------- SimpleThreadCoord (ThreadObj.cpp)
\* The one-shot coordinator: no running flag, and Run refuses an instance
\* whose signals exist.
SimpleCallRun(r) ==
    /\ ~s_Fault
    /\ spc[r] = "idle" /\ s_Runs[r] < MaxRuns
    /\ s_Runs' = [s_Runs EXCEPT ![r] = @ + 1]
    /\ spc' = [spc EXCEPT ![r] = "check"]
    /\ s_Outcome' = [s_Outcome EXCEPT ![r] = "none"]
    /\ UNCHANGED <<logVars, coordVars, eventVars, utilVars>>
    /\ UNCHANGED <<s_StopEvent, s_ThreadStoppedEvent, s_Continue, scpc,
                   s_Fault>>

\* Both signals exist.
SignalsBothExist == s_StopEvent # "absent" /\ s_ThreadStoppedEvent # "absent"

\* if(m_StopEvent || m_ThreadStoppedEvent): either signal exists.
SignalsExist == s_StopEvent # "absent" \/ s_ThreadStoppedEvent # "absent"

\* assert(0 == m_StopEvent); assert(0 == m_ThreadStoppedEvent);
\* if(m_StopEvent || m_ThreadStoppedEvent) throw nik::Error(...).
\* With assertions the process ends in the assertion; with NDEBUG the
\* error is thrown to the caller.
SimpleRunCheck(r) ==
    /\ ~s_Fault
    /\ spc[r] = "check"
    /\ \E asserts \in BOOLEAN :
          /\ s_Fault' = (SignalsExist /\ asserts)
          /\ s_Outcome' = [s_Outcome EXCEPT ![r] =
                IF ~SignalsExist THEN "entered"
                ELSE IF asserts THEN "aborted" ELSE "thrown"]
    /\ spc' = [spc EXCEPT ![r] = IF SignalsExist THEN "idle" ELSE "create_stop"]
    /\ UNCHANGED <<logVars, coordVars, eventVars, utilVars>>
    /\ UNCHANGED <<s_StopEvent, s_ThreadStoppedEvent, s_Continue, scpc,
                   s_Runs>>

\* m_StopEvent = Event::Create(); assert(m_StopEvent)
SimpleRunCreateStop(r) ==
    /\ ~s_Fault
    /\ spc[r] = "create_stop"
    /\ \E ok \in BOOLEAN, asserts \in BOOLEAN :
          /\ s_StopEvent' = EventCreate(ok)
          /\ s_Fault' = (~ok /\ asserts)
          /\ spc' = [spc EXCEPT ![r] =
                       IF ~ok /\ asserts THEN @ ELSE "create_stopped"]
    /\ UNCHANGED <<logVars, coordVars, eventVars, utilVars>>
    /\ UNCHANGED <<s_ThreadStoppedEvent, s_Continue, scpc, s_Runs, s_Outcome>>

\* m_ThreadStoppedEvent = Event::Create(); assert(m_ThreadStoppedEvent);
\* bool continueThread = true
SimpleRunCreateStopped(r) ==
    /\ ~s_Fault
    /\ spc[r] = "create_stopped"
    /\ \E ok \in BOOLEAN, asserts \in BOOLEAN :
          /\ s_ThreadStoppedEvent' = EventCreate(ok)
          /\ s_Fault' = (~ok /\ asserts)
          /\ spc' = [spc EXCEPT ![r] = IF ~ok /\ asserts THEN @ ELSE "work"]
    /\ s_Continue' = [s_Continue EXCEPT ![r] = TRUE]
    /\ scpc' = IF scpc = "waiting" THEN "orphaned" ELSE scpc
    /\ UNCHANGED <<logVars, coordVars, eventVars, utilVars>>
    /\ UNCHANGED <<s_StopEvent, s_Runs, s_Outcome>>

\* while(m_UserFunc(continueThread) && continueThread)
SimpleRunWork(r) ==
    /\ ~s_Fault
    /\ spc[r] = "work"
    /\ \E keepGoing \in BOOLEAN :
          spc' = [spc EXCEPT ![r] =
                    IF keepGoing /\ s_Continue[r] THEN "poll" ELSE "set_stopped"]
    /\ s_Outcome' = [s_Outcome EXCEPT ![r] = "worked"]
    /\ UNCHANGED <<logVars, coordVars, eventVars, utilVars>>
    /\ UNCHANGED <<s_StopEvent, s_ThreadStoppedEvent, s_Continue, scpc,
                   s_Runs, s_Fault>>

\* m_StopEvent->WaitForEvent(0); if signaled, continueThread = false
SimpleRunPoll(r) ==
    /\ ~s_Fault
    /\ spc[r] = "poll"
    /\ s_Continue' = [s_Continue EXCEPT ![r] =
                        IF EventSignaled(s_StopEvent) THEN FALSE ELSE @]
    /\ s_Fault' = (s_StopEvent = "absent")
    /\ spc' = [spc EXCEPT ![r] = IF s_StopEvent = "absent" THEN @ ELSE "work"]
    /\ UNCHANGED <<logVars, coordVars, eventVars, utilVars>>
    /\ UNCHANGED <<s_StopEvent, s_ThreadStoppedEvent, scpc, s_Runs, s_Outcome>>

\* m_ThreadStoppedEvent->SetEvent()
SimpleRunSetStopped(r) ==
    /\ ~s_Fault
    /\ spc[r] = "set_stopped"
    /\ s_ThreadStoppedEvent' = EventSet(s_ThreadStoppedEvent)
    /\ s_Fault' = (s_ThreadStoppedEvent = "absent")
    /\ scpc' = IF scpc = "waiting" /\ s_ThreadStoppedEvent # "absent"
               THEN "released" ELSE scpc
    /\ spc' = [spc EXCEPT ![r] =
                 IF s_ThreadStoppedEvent = "absent" THEN @ ELSE "idle"]
    /\ UNCHANGED <<logVars, coordVars, eventVars, utilVars>>
    /\ UNCHANGED <<s_StopEvent, s_Continue, s_Runs, s_Outcome>>

SimpleRunStep(r) ==
    \/ SimpleRunCheck(r) \/ SimpleRunCreateStop(r)
    \/ SimpleRunCreateStopped(r) \/ SimpleRunWork(r) \/ SimpleRunPoll(r)
    \/ SimpleRunSetStopped(r)

\* SimpleThreadCoord::SignalStop: assert(m_StopEvent);
\* m_StopEvent->SetEvent()
SimpleSignalStop ==
    /\ ~s_Fault
    /\ scpc = "idle"
    /\ s_StopEvent' = EventSet(s_StopEvent)
    /\ s_Fault' = (s_StopEvent = "absent")
    /\ UNCHANGED <<logVars, coordVars, eventVars, utilVars>>
    /\ UNCHANGED <<s_ThreadStoppedEvent, spc, s_Continue, scpc, s_Runs,
                   s_Outcome>>

\* SimpleThreadCoord::WaitForStop: assert(m_StopEvent);
\* m_StopEvent->SetEvent()
SimpleWaitForStopSet ==
    /\ ~s_Fault
    /\ scpc = "idle"
    /\ s_StopEvent' = EventSet(s_StopEvent)
    /\ s_Fault' = (s_StopEvent = "absent")
    /\ scpc' = IF s_StopEvent = "absent" THEN scpc ELSE "wait"
    /\ UNCHANGED <<logVars, coordVars, eventVars, utilVars>>
    /\ UNCHANGED <<s_ThreadStoppedEvent, spc, s_Continue, s_Runs, s_Outcome>>

\* assert(m_ThreadStoppedEvent);
\* m_ThreadStoppedEvent->WaitForEvent(Event::FOREVER)
SimpleWaitForStopEnter ==
    /\ ~s_Fault
    /\ scpc = "wait"
    /\ s_Fault' = (s_ThreadStoppedEvent = "absent")
    /\ scpc' = IF s_ThreadStoppedEvent = "absent" THEN scpc
               ELSE IF EventSignaled(s_ThreadStoppedEvent) THEN "idle"
               ELSE "waiting"
    /\ UNCHANGED <<logVars, coordVars, eventVars, utilVars>>
    /\ UNCHANGED <<s_StopEvent, s_ThreadStoppedEvent, spc, s_Continue,
                   s_Runs, s_Outcome>>

\* The blocked wait was released by SetEvent and returns.
SimpleWaitForStopReturn ==
    /\ ~s_Fault
    /\ scpc = "released"
    /\ scpc' = "idle"
    /\ UNCHANGED <<logVars, coordVars, eventVars, utilVars>>
    /\ UNCHANGED <<s_StopEvent, s_ThreadStoppedEvent, spc, s_Continue,
                   s_Runs, s_Outcome, s_Fault>>

SimpleNext ==
    \/ \E r \in Runners : SimpleCallRun(r) \/ SimpleRunStep(r)
    \/ SimpleSignalStop
    \/ SimpleWaitForStopSet \/ SimpleWaitForStopEnter
    \/ SimpleWaitForStopReturn

SpecSimple == Init /\ [][SimpleNext]_vars

\* -------------------------------------------------------------- nik::Event
\* The event after a wait on it was satisfied, were it an auto-reset event.
EventWaitedAutoReset(e) == EventClear(e)

\* The event after a wait on it was satisfied: EventImpl::Init creates it
\* with bManualReset true, so WaitForSingleObject leaves it signaled.
EventWaited(e) == e

\* Event::SetEvent by any thread
EvSetEvent ==
    /\ m_Event' = EventSet(m_Event)
    /\ UNCHANGED <<logVars, coordVars, simpleVars, utilVars>>
    /\ UNCHANGED <<wpc, waitTime, waitResult, waits, sureWait>>

\* Event::ClearEvent by any thread
EvClearEvent ==
    /\ m_Event' = EventClear(m_Event)
    /\ sureWait' = [w \in Waiters |-> FALSE]
    /\ UNCHANGED <<logVars, coordVars, simpleVars, utilVars>>
    /\ UNCHANGED <<wpc, waitTime, waitResult, waits>>

\* A thread calls Event::WaitForEvent(waitTime), with no wait or without
\* bound.
CallWaitForEvent(w) ==
    /\ wpc[w] = "idle" /\ waits[w] < MaxWaits
    /\ \E t \in {0, FOREVER} : waitTime' = [waitTime EXCEPT ![w] = t]
    /\ wpc' = [wpc EXCEPT ![w] = "wait"]
    /\ waits' = [waits EXCEPT ![w] = @ + 1]
    /\ waitResult' = [waitResult EXCEPT ![w] = "none"]
    /\ sureWait' = [sureWait EXCEPT ![w] = EventSignaled(m_Event)]
    /\ UNCHANGED <<logVars, coordVars, simpleVars, utilVars>>
    /\ UNCHANGED m_Event

\* WaitForSingleObject finds the event signaled: WAIT_SIGNALED.
WaitForEventSignaled(w) ==
    /\ wpc[w] = "wait"
    /\ EventSignaled(m_Event)
    /\ m_Event' = EventWaited(m_Event)
    /\ waitResult' = [waitResult EXCEPT ![w] = "WAIT_SIGNALED"]
    /\ wpc' = [wpc EXCEPT ![w] = "idle"]
    /\ UNCHANGED <<logVars, coordVars, simpleVars, utilVars>>
    /\ UNCHANGED <<waitTime, waits, sureWait>>

\* WaitForSingleObject with waitTime 0 finds the event not signaled:
\* WAIT_TIMEDOUT.  With FOREVER the thread stays blocked.
WaitForEventTimedOut(w) ==
    /\ wpc[w] = "wait"
    /\ ~EventSignaled(m_Event)
    /\ waitTime[w] = 0
    /\ waitResult' = [waitResult EXCEPT ![w] = "WAIT_TIMEDOUT"]
    /\ wpc' = [wpc EXCEPT ![w] = "idle"]
    /\ UNCHANGED <<logVars, coordVars, simpleVars, utilVars>>
    /\ UNCHANGED <<m_Event, waitTime, waits, sureWait>>

EventNext ==
    \/ EvSetEvent \/ EvClearEvent
    \/ \E w \in Waiters :
          \/ CallWaitForEvent(w)
          \/ WaitForEventSignaled(w)
          \/ WaitForEventTimedOut(w)

SpecEvent == Init /\ [][EventNext]_vars

\* ----------------------------------------------------------------- TLogger
\* The text inserted by producer p's k-th TLogger::operator<< call: two
\* characters.
TText(p, k) ==
    <<Token(p, MaxAppend + 2 * k - 1), Token(p, MaxAppend + 2 * k)>>

\* TLogger::operator<<: m_Os << val, on the TLogger's own stream and under
\* no lock.
TLogInsert(p) ==
    /\ ~crashed /\ ~TeardownBegun
    /\ ppc[p] = "idle" /\ tpc[p] = "none"
    /\ Inserted(Producers) + Cardinality(Inserting) + TInserted(Producers)
          < MaxAppend
    /\ t_Os' = [t_Os EXCEPT ![p] = @ \o TText(p, t_Count[p] + 1)]
    /\ t_Count' = [t_Count EXCEPT ![p] = @ + 1]
    /\ UNCHANGED <<coordVars, simpleVars, eventVars, utilVars, manip, created>>
    /\ UNCHANGED <<m_Os, m_Lock, m_Buffer, m_BuffMutex, m_Of, m_Continue,
                   m_ThreadStarted, files, outBuffer, ppc, opc, dpc, nextTok,
                   setFiles, crashed, accepted, refused, tpc, batches>>

\* TLogger::Flush is called, by the user or by ~TLogger, on a TLogger that
\* holds text: *m_Log << m_Os.str() begins.
CallTLogFlush(p) ==
    /\ ~crashed /\ ~TeardownBegun
    /\ ppc[p] = "idle" /\ tpc[p] = "none"
    /\ t_Os[p] # <<>>
    /\ tpc' = [tpc EXCEPT ![p] = "append"]
    /\ ppc' = [ppc EXCEPT ![p] = "tl_lock"]
    /\ UNCHANGED <<coordVars, simpleVars, eventVars, utilVars, manip, created>>
    /\ UNCHANGED <<m_Os, m_Lock, m_Buffer, m_BuffMutex, m_Of, m_Continue,
                   m_ThreadStarted, files, outBuffer, opc, dpc, nextTok,
                   setFiles, crashed, accepted, refused, t_Os, t_Count,
                   batches>>

\* ScopeLock al(m_Lock) in the Logger::operator<< called by TLogger::Flush
TLogAppendLock(p) ==
    /\ ~crashed
    /\ ppc[p] = "tl_lock"
    /\ MutexFree(m_Lock, p)
    /\ m_Lock' = MutexLock(m_Lock, p)
    /\ ppc' = [ppc EXCEPT ![p] = "tl_body"]
    /\ UNCHANGED <<coordVars, simpleVars, eventVars, utilVars, manip, tlogVars, created>>
    /\ UNCHANGED <<m_Os, m_Buffer, m_BuffMutex, m_Of, m_Continue,
                   m_ThreadStarted, files, outBuffer, opc, dpc, nextTok,
                   setFiles, crashed, accepted, refused>>

\* The front buffer after m_Os << val with val the TLogger's whole text.
TLogAppend(os, text) == os \o text

\* Logger::operator<<: m_Os << val; ~ScopeLock; then TLogger::Flush calls
\* m_Log->Flush()
TLogAppendBody(p) ==
    /\ ~crashed
    /\ ppc[p] = "tl_body"
    /\ m_Os' = TLogAppend(m_Os, t_Os[p])
    /\ batches' = batches \cup {t_Os[p]}
    /\ m_Lock' = MutexUnlock(m_Lock, p)
    /\ ppc' = [ppc EXCEPT ![p] = "fl_lock"]
    /\ tpc' = [tpc EXCEPT ![p] = "flush"]
    /\ UNCHANGED <<coordVars, simpleVars, eventVars, utilVars, manip, created>>
    /\ UNCHANGED <<m_Buffer, m_BuffMutex, m_Of, m_Continue, m_ThreadStarted,
                   files, outBuffer, opc, dpc, nextTok, setFiles, crashed,
                   accepted, refused, t_Os, t_Count>>

\* TLogger::Flush after m_Log->Flush() has returned: m_Os.str("")
TLogClear(p) ==
    /\ ~crashed
    /\ ppc[p] = "idle" /\ tpc[p] = "flush"
    /\ t_Os' = [t_Os EXCEPT ![p] = <<>>]
    /\ tpc' = [tpc EXCEPT ![p] = "none"]
    /\ UNCHANGED <<coordVars, simpleVars, eventVars, utilVars, manip, created>>
    /\ UNCHANGED <<m_Os, m_Lock, m_Buffer, m_BuffMutex, m_Of, m_Continue,
                   m_ThreadStarted, files, outBuffer, ppc, opc, dpc, nextTok,
                   setFiles, crashed, accepted, refused, t_Count, batches>>

TLogStep(p) ==
    \/ TLogInsert(p) \/ CallTLogFlush(p)
    \/ TLogAppendLock(p) \/ TLogAppendBody(p) \/ TLogClear(p)

\* The writer used through TLogger objects as well as directly.
SpecTLogger == Init /\ [][LogNext \/ \E p \in Producers : TLogStep(p)]_vars

\* -------------------------------------------------------------- nik::Timer
\* clock() counts milliseconds on the platform of the library.
CLOCKS_PER_SEC == 1000

\* By how much the clock advances between two calls on the Timer: one
\* tick, or a little under twenty minutes.
ClockSteps == {1, 1100000}

\* The product k * x in a 32-bit long (clock_t), for 0 <= x < 2^31 and
\* 0 <= k < 2^15: the low 32 bits of the product, read as a signed number.
Mul32(k, x) ==
    LET lo == k * (x % 65536)
        hi == (k * (x \div 65536) + lo \div 65536) % 65536
    IN  (IF hi < 32768 THEN hi ELSE hi - 65536) * 65536 + (lo % 65536)

\* n / d on signed operands: the quotient is truncated towards zero.
TruncDiv(n, d) == IF n >= 0 THEN n \div d ELSE -((-n) \div d)

\* (1000*runningTicks) / CLOCKS_PER_SEC converted to unsigned.  An
\* unsigned value is held as the signed number with the same 32 bits.
TicksToMs(runningTicks) == TruncDiv(Mul32(1000, runningTicks), CLOCKS_PER_SEC)

\* Timer::Start
TimerStart ==
    /\ timerOps < MaxTimerOps
    /\ m_TicksStart' = IF t_IsRunning THEN m_TicksStart ELSE clock
    /\ t_IsRunning' = TRUE
    /\ timerOps' = timerOps + 1
    /\ timeRead' = FALSE
    /\ UNCHANGED <<logVars, coordVars, simpleVars, eventVars, cmdVars, obsVars, objVars>>
    /\ UNCHANGED <<m_StoredTicks, clock, timeMs, ticks, ranFor>>

\* Timer::Stop
TimerStop ==
    /\ timerOps < MaxTimerOps
    /\ m_StoredTicks' = IF t_IsRunning
                        THEN m_StoredTicks + (clock - m_TicksStart)
                        ELSE m_StoredTicks
    /\ t_IsRunning' = FALSE
    /\ timerOps' = timerOps + 1
    /\ timeRead' = FALSE
    /\ UNCHANGED <<logVars, coordVars, simpleVars, eventVars, cmdVars, obsVars, objVars>>
    /\ UNCHANGED <<m_TicksStart, clock, timeMs, ticks, ranFor>>

\* Timer::Reset
TimerReset ==
    /\ timerOps < MaxTimerOps
    /\ t_IsRunning' = FALSE
    /\ m_StoredTicks' = 0
    /\ ranFor' = 0
    /\ timerOps' = timerOps + 1
    /\ timeRead' = FALSE
    /\ UNCHANGED <<logVars, coordVars, simpleVars, eventVars, cmdVars, obsVars, objVars>>
    /\ UNCHANGED <<m_TicksStart, clock, timeMs, ticks>>

\* Timer::GetTimeMs
GetTimeMs ==
    /\ ~timeRead
    /\ LET runningTicks == IF t_IsRunning
                           THEN m_StoredTicks + (clock - m_TicksStart)
                           ELSE m_StoredTicks
       IN  timeMs' = TicksToMs(runningTicks)
    /\ timeRead' = TRUE
    /\ UNCHANGED <<logVars, coordVars, simpleVars, eventVars, cmdVars, obsVars, objVars>>
    /\ UNCHANGED <<t_IsRunning, m_TicksStart, m_StoredTicks, clock, ticks,
                   timerOps, ranFor>>

\* Time passes: clock() grows, and so does the time spent running when
\* the timer has been started and neither stopped nor reset since.
ClockTick ==
    /\ ticks < MaxTicks
    /\ \E d \in ClockSteps :
          /\ clock' = clock + d
          /\ ranFor' = IF t_IsRunning THEN ranFor + d ELSE ranFor
    /\ ticks' = ticks + 1
    /\ timeRead' = FALSE
    /\ UNCHANGED <<logVars, coordVars, simpleVars, eventVars, cmdVars, obsVars, objVars>>
    /\ UNCHANGED <<t_IsRunning, m_TicksStart, m_StoredTicks, timeMs,
                   timerOps>>

TimerNext ==
    \/ TimerStart \/ TimerStop \/ TimerReset \/ GetTimeMs \/ ClockTick

SpecTimer == Init /\ [][TimerNext]_vars

\* ------------------------------------------------------------ nik::CmdLine
\* The arguments a command line is made of here.
ArgWords == { <<"-", "a">>, <<"-", "b">>, <<"x">>, <<"y">>, <<"-">> }

\* The flags GetArg is asked for.
AskedFlags == { <<"a">>, <<"b">> }

RECURSIVE ArgLists(_)
ArgLists(n) ==
    IF n = 0 THEN { <<>> }
    ELSE LET shorter == ArgLists(n - 1)
         IN  shorter \cup { Append(l, w) : l \in shorter, w \in ArgWords }

\* IsFlag(arg)
IsFlag(arg) == Len(arg) > 1 /\ arg[1] = "-"

\* std::map::insert: a pair whose key is in the map already is not inserted.
MapInsert(map, flag, data) ==
    IF \E e \in map : e.flag = flag
    THEN map
    ELSE map \cup { [flag |-> flag, data |-> data] }

\* The loop of ParseCmdArg from argv[i] on, and what follows the loop.
\* argv[0] of the code is av[1] here.
RECURSIVE ParseLoop(_, _, _, _, _)
ParseLoop(av, i, flag, data, map) ==
    IF i > Len(av)
    THEN IF flag # <<>> THEN MapInsert(map, flag, data) ELSE map
    ELSE IF IsFlag(av[i])
         THEN IF flag # <<>>
              THEN ParseLoop(av, i + 1, Tail(av[i]), <<>>,
                             MapInsert(map, flag, data))
              ELSE ParseLoop(av, i + 1, Tail(av[i]), data, map)
         ELSE ParseLoop(av, i + 1, flag,
                        IF data # <<>> THEN data \o <<" ">> \o av[i]
                                       ELSE av[i],
                        map)

\* CmdLine::ParseCmdArg(argc, argv)
ParseCmdArg ==
    \E l \in ArgLists(MaxArgs) :
       /\ argv' = <<ProgName>> \o l
       /\ m_Args' = ParseLoop(<<ProgName>> \o l, 2, <<>>, <<>>, {})
       /\ askedFlag' = <<>>
       /\ gotArg' = [null |-> TRUE, str |-> <<>>]
       /\ UNCHANGED <<logVars, coordVars, simpleVars, eventVars, timerVars, obsVars, objVars>>

\* CmdLine::GetArg(flag)
GetArg ==
    \E f \in AskedFlags :
       /\ askedFlag' = f
       /\ gotArg' = IF \E e \in m_Args : e.flag = f
                    THEN [null |-> FALSE,
                          str |-> (CHOOSE e \in m_Args : e.flag = f).data]
                    ELSE [null |-> TRUE, str |-> <<>>]
       /\ UNCHANGED <<logVars, coordVars, simpleVars, eventVars, timerVars, obsVars, objVars>>
       /\ UNCHANGED <<argv, m_Args>>

CmdNext == ParseCmdArg \/ GetArg

SpecCmdLine == Init /\ [][CmdNext]_vars

\* --------------------------------------------- nik::Observable, nik::Observer
\* std::find_if(m_ObserverList.begin(), m_ObserverList.end(), EqualPred(obs))
\* in observable s: the position of the first observer of the list with the
\* ID of obs, 0 for m_ObserverList.end().
FindObs(s, obs) ==
    LET hits == { i \in 1..Len(m_ObserverList[s]) :
                      o_ID[m_ObserverList[s][i]] = o_ID[obs] }
    IN  IF hits = {} THEN 0
        ELSE CHOOSE i \in hits : \A j \in hits : i <= j

\* m_FreeIDs of s after Observable::generateID, which returns the last
\* free ID
FreeIDsAfterGenerate(s) ==
    LET id   == m_FreeIDs[s][Len(m_FreeIDs[s])]
        rest == SubSeq(m_FreeIDs[s], 1, Len(m_FreeIDs[s]) - 1)
    IN  IF rest = <<>> THEN <<id + 1>> ELSE rest

\* The test of registerObs that makes it return without registering.
RegisterReturnsEarly(s, obs) == o_ID[obs] # InvalidID /\ FindObs(s, obs) = 0

\* Observable::registerObs(obs) on observable s
RegisterObs(s, obs) ==
    /\ obsOps < MaxObsOps
    /\ obsOps' = obsOps + 1
    /\ IF RegisterReturnsEarly(s, obs)
       THEN UNCHANGED <<o_ID, m_ObserverList, m_FreeIDs>>
       ELSE /\ o_ID' = [o_ID EXCEPT ![obs] = m_FreeIDs[s][Len(m_FreeIDs[s])]]
            /\ m_FreeIDs' = [m_FreeIDs EXCEPT ![s] = FreeIDsAfterGenerate(s)]
            /\ m_ObserverList' =
                   [m_ObserverList EXCEPT ![s] = Append(@, obs)]
    /\ registered' = [registered EXCEPT ![s] = @ \cup {obs}]
    /\ notifiedNow' = 0
    /\ obsRaised' = FALSE
    /\ UNCHANGED notified
    /\ UNCHANGED <<logVars, coordVars, simpleVars, eventVars, timerVars, cmdVars, objVars>>

\* Observable::unregisterObs(obs) on observable s
UnregisterObs(s, obs) ==
    /\ obsOps < MaxObsOps
    /\ obsOps' = obsOps + 1
    /\ LET it == FindObs(s, obs)
       IN  IF it = 0
           THEN /\ obsRaised' = TRUE
                /\ UNCHANGED <<o_ID, m_ObserverList, registered>>
           ELSE /\ obsRaised' = FALSE
                /\ o_ID' = [o_ID EXCEPT ![m_ObserverList[s][it]] = InvalidID]
                /\ m_ObserverList' =
                       [m_ObserverList EXCEPT ![s] =
                           SubSeq(@, 1, it - 1) \o SubSeq(@, it + 1, Len(@))]
                /\ registered' = [registered EXCEPT ![s] = @ \ {obs}]
    /\ notifiedNow' = 0
    /\ UNCHANGED <<m_FreeIDs, notified>>
    /\ UNCHANGED <<logVars, coordVars, simpleVars, eventVars, timerVars, cmdVars, objVars>>

\* Observable::notifyAll() on observable s: signal() of every entry of
\* its list
NotifyAll(s) ==
    /\ notifiedNow # s
    /\ notified' = [o \in Observers |->
                       Cardinality({ i \in 1..Len(m_ObserverList[s]) :
                                        m_ObserverList[s][i] = o })]
    /\ notifiedNow' = s
    /\ obsRaised' = FALSE
    /\ UNCHANGED <<o_ID, m_ObserverList, m_FreeIDs, obsOps, registered>>
    /\ UNCHANGED <<logVars, coordVars, simpleVars, eventVars, timerVars, cmdVars, objVars>>

ObsNext ==
    \/ \E s \in Observables, obs \in Observers : RegisterObs(s, obs)
    \/ \E s \in Observables, obs \in Observers : UnregisterObs(s, obs)
    \/ \E s \in Observables : NotifyAll(s)

SpecObservable == Init /\ [][ObsNext]_vars

\* ----------------------------------------------------------- nik::ThreadObj
\* The thread that ThreadObj::Run starts.
SpawnedThread == <<"runner", 1>>

\* delete m_Thread, evaluated on the value of the field: deleting a null
\* pointer does nothing.
DeleteThread(field, object) ==
    IF field = "null" THEN object ELSE "deleted"

\* The delete expressions evaluated on the Thread object after one more
\* delete m_Thread.
DeletesAfter(field, n) == IF field = "null" THEN n ELSE n + 1

\* ThreadObj::Run(userObj), called with m_Thread null: m_Thread =
\* Thread::Create(); m_Thread->StartThread(MyThreadFunction, this)
ObjRun ==
    /\ ~coordFault
    /\ opos = "none" /\ hpc = "none" /\ o_Thread = "null"
    /\ spawns < MaxRuns
    /\ o_Thread' = "set"
    /\ threadObject' = "live"
    /\ handleDeletes' = 0
    /\ hpc' = "run"
    /\ spawns' = spawns + 1
    /\ UNCHANGED opos
    /\ UNCHANGED <<logVars, coordVars, simpleVars, eventVars, timerVars, cmdVars, obsVars>>

\* MyThreadFunction: threadObj->m_ThreadCoord.Run() is called
ObjThreadEnters ==
    /\ hpc = "run" /\ runs[SpawnedThread] < spawns
    /\ CallRun(SpawnedThread)

\* MyThreadFunction after Run has returned: delete threadObj->m_Thread
ObjThreadDelete ==
    /\ ~coordFault
    /\ hpc = "run" /\ runs[SpawnedThread] = spawns
    /\ rpc[SpawnedThread] = "idle"
    /\ threadObject' = DeleteThread(o_Thread, threadObject)
    /\ handleDeletes' = DeletesAfter(o_Thread, handleDeletes)
    /\ hpc' = "clear"
    /\ UNCHANGED <<o_Thread, opos, spawns>>
    /\ UNCHANGED <<logVars, coordVars, simpleVars, eventVars, timerVars, cmdVars, obsVars>>

\* MyThreadFunction: threadObj->m_Thread = 0; return 0
ObjThreadClear ==
    /\ ~coordFault
    /\ hpc = "clear"
    /\ o_Thread' = "null"
    /\ hpc' = "none"
    /\ UNCHANGED <<threadObject, handleDeletes, opos, spawns>>
    /\ UNCHANGED <<logVars, coordVars, simpleVars, eventVars, timerVars, cmdVars, obsVars>>

\* ~ThreadObj: if( m_Thread) m_ThreadCoord.WaitForStop() is called
ObjDestroyBegin ==
    /\ ~coordFault
    /\ opos = "none" /\ cpc = "idle"
    /\ opos' = "delete"
    /\ cpc' = IF o_Thread # "null" THEN "ws_check" ELSE "idle"
    /\ ctlOutcome' = "none"
    /\ sinceRun' = TRUE
    /\ UNCHANGED <<o_Thread, threadObject, handleDeletes, hpc, spawns>>
    /\ UNCHANGED <<logVars, simpleVars, eventVars, timerVars, cmdVars, obsVars>>
    /\ UNCHANGED <<m_IsRunning, m_StopEvent, m_ThreadStoppedEvent, rpc,
                   continueThread, runs, coordFault, runOutcome, signalled,
                   dtor, falseCalls>>

\* ~ThreadObj, WaitForStop having returned: delete m_Thread
ObjDestroyDelete ==
    /\ ~coordFault
    /\ opos = "delete" /\ cpc = "idle"
    /\ threadObject' = DeleteThread(o_Thread, threadObject)
    /\ handleDeletes' = DeletesAfter(o_Thread, handleDeletes)
    /\ opos' = "done"
    /\ UNCHANGED <<o_Thread, hpc, spawns>>
    /\ UNCHANGED <<logVars, coordVars, simpleVars, eventVars, timerVars, cmdVars, obsVars>>

\* ThreadObj::Stop and ThreadObj::WaitForStop, called before ~ThreadObj
ObjControl ==
    /\ opos = "none"
    /\ (CallSignalStop \/ CallWaitForStop)

ObjNext ==
    \/ ObjRun \/ ObjThreadEnters \/ RunStep(SpawnedThread)
    \/ ObjThreadDelete \/ ObjThreadClear
    \/ ObjControl \/ ControlStep
    \/ ObjDestroyBegin \/ ObjDestroyDelete

SpecThreadObj == Init /\ [][ObjNext]_vars

\* ------------------------------------------------------------- claims
\* The text of m_Os that no Write has copied into m_Buffer yet: after a
\* Write has returned true, m_Os is a copy that Flush is about to clear.
FrontText == IF \E p \in Producers : ppc[p] = "fl_true" THEN <<>> ELSE m_Os

\* Text that has reached file f, then the text on its way to the
\* destination, oldest first.
Pipeline(f) == files[f] \o m_Of.buf \o outBuffer \o m_Buffer \o FrontText

\* The text of s that belongs to producer p.
TextOf(s, p) == SelectSeq(s, LAMBDA t : t[1] = p)

\* s holds its tokens in program order, none twice.
InProgramOrder(s) ==
    \A i, j \in 1..Len(s) : i < j => s[i][2] < s[j][2]

\* The writer has been activated and its teardown has not begun.
WriterActive == m_ThreadStarted /\ ~TeardownBegun

\* C1: once ~LogImpl has completed on a writer that was activated by one
\* SetFile, the destination holds all the text whose Write returned true,
\* each piece once and in the order of the appends.
C1_NoLossOnShutdown ==
    (opc = "gone" /\ m_ThreadStarted /\ setFiles = 1)
        => \E f \in FileNames :
              SelectSeq(files[f], LAMBDA t : t \in Range(accepted)) = accepted

\* C2: while the writer is active, the text of each producer in every
\* file, followed by its text still in the stream, in the drain thread's
\* copy, in m_Buffer and in m_Os, is in that producer's program order.
C2_PerProducerOrder ==
    WriterActive
        => \A f \in FileNames, p \in Producers :
              InProgramOrder(TextOf(Pipeline(f), p))

\* C2 witness: two pieces of one producer's text are in a file of the
\* active writer.
C2_Witness ==
    /\ WriterActive
    /\ \E f \in FileNames, p \in Producers :
          {Token(p, 1), Token(p, 2)} \subseteq Range(files[f])

\* C3: a producer inside Logger::Flush gets back out of it (or the process
\* has faulted), whatever the drain thread and the owning thread do.
C3_FlushReturns ==
    \A p \in Producers :
        (ppc[p] \in {"fl_lock", "fl_write", "wr_body", "fl_true", "fl_false"})
            ~> (ppc[p] = "idle" \/ crashed)

\* C3 witness: a producer's Write has timed out while the drain thread
\* holds the buffer lock.
C3_Witness ==
    /\ Holds(m_BuffMutex, DrainThread)
    /\ \E p \in Producers : ppc[p] = "fl_false"

\* C4: a Write whose bounded wait times out leaves m_Buffer as it was,
\* leaves the caller without the buffer lock and faults nothing; a Write
\* that acquired the lock appends the text at the end of m_Buffer and
\* returns with the lock released.
C4_WriteOutcome ==
    [][\A p \in Producers :
          /\ (ppc[p] = "fl_write" /\ ppc'[p] = "fl_false")
                => /\ MutexBusy(m_BuffMutex, p)
                   /\ m_Buffer' = m_Buffer
                   /\ ~Holds(m_BuffMutex', p)
                   /\ ~crashed'
          /\ (ppc[p] # "fl_true" /\ ppc'[p] = "fl_true")
                => /\ Holds(m_BuffMutex, p)
                   /\ m_Buffer' = m_Buffer \o m_Os
                   /\ ~Holds(m_BuffMutex', p)]_vars

\* C4 witness: a Write has timed out after an earlier Write appended text.
C4_Witness ==
    /\ accepted # <<>>
    /\ \E p \in Producers : ppc[p] = "fl_false"

\* Everything that has left the front buffer for the destination.
Downstream ==
    Range(m_Buffer) \cup Range(outBuffer) \cup Range(m_Of.buf)
        \cup UNION {Range(files[f]) : f \in FileNames}

C6_StreamNotShared ==
    ~(/\ dpc \in {"write", "flush"}
      /\ opc \in {"sf_close", "sf_open", "td_force", "td_close"})

\* Thread t takes the step.
Acted(t) ==
    \/ t = OwnerThread /\ opc' # opc
    \/ t = DrainThread /\ dpc' # dpc
    \/ t \in Producers /\ ppc'[t] # ppc[t]

AllTokens == {Token(p, k) : p \in Producers, k \in 1..MaxAppend}

\* C9: text appended to m_Buffer by a successful Write is eventually in a
\* file, unless teardown begins, the process faults, or the last SetFile
\* left the writer without an open destination.
C9_AcceptedIsDrained ==
    \A t \in AllTokens :
        (t \in Range(m_Buffer))
            ~> \/ \E f \in FileNames : t \in Range(files[f])
               \/ TeardownBegun
               \/ crashed
               \/ (opc = "idle" /\ ~m_Of.open)

\* C10: a WaitForStop call that found the coordinator running eventually
\* returns (or the process has faulted), for every interleaving with Run.
C10_WaitForStopReturns ==
    (cpc \in {"wait_set", "wait", "waiting", "released"})
        ~> (cpc = "idle" \/ coordFault)

\* Only one thread has called Run on the instance so far (the way ThreadObj
\* uses its coordinator).
OneRunner == \E r \in Runners : \A q \in Runners \ {r} : runs[q] = 0

\* Positions of Run inside the work loop.
LoopPcs == {"work", "poll"}

\* Positions of Run between setting and clearing the running flag.
MarkedPcs == {"create_stop", "create_stopped", "reset_stop", "reset_stopped",
              "work", "poll", "exit"}

\* C11: whenever the stopped signal is set the running flag is false, also
\* across re-runs of the instance by one thread.
C11_StoppedImpliesNotRunning ==
    (OneRunner /\ EventSignaled(m_ThreadStoppedEvent)) => ~m_IsRunning

\* C12: at most one thread is inside the work loop of the instance.
C12_OneLoopAtATime ==
    Cardinality({r \in Runners : rpc[r] \in LoopPcs}) <= 1

\* C13: the running flag is true while a thread is in the work loop and
\* false while no Run call is between setting and clearing it.
C13_RunningStateAccurate ==
    /\ (\E r \in Runners : rpc[r] \in LoopPcs) => m_IsRunning
    /\ (\A r \in Runners : rpc[r] \notin MarkedPcs) => ~m_IsRunning

\* C14: once a WaitForStop that was called after the thread was started has
\* returned, the running flag is false and no thread is in the work loop
\* (until the next Run).
C14_WaitForStopMeansStopped ==
    ( /\ OneRunner
      /\ TotalRuns(Runners) > 0
      /\ sinceRun
      /\ cpc = "idle"
      /\ ctlOutcome \in {"wait_skipped", "wait_done"} )
        => /\ ~m_IsRunning
           /\ \A r \in Runners : rpc[r] \notin LoopPcs

\* C15: a Run that finds the running flag true returns at once: the work
\* function is not invoked, the flag and both signals are unchanged and the
\* process does not fault.
C15_RunWhileRunningIsNoOp ==
    [][ \A r \in Runners :
          (rpc[r] = "check" /\ m_IsRunning /\ rpc'[r] # rpc[r])
            => /\ rpc'[r] = "idle"
               /\ UNCHANGED <<m_IsRunning, m_StopEvent, m_ThreadStoppedEvent>>
               /\ ~coordFault'
      ]_vars

\* C15 witness: a Run call was refused while another thread runs the loop.
C15_Witness ==
    \E r \in Runners :
        /\ runOutcome[r] = "skipped" /\ rpc[r] = "idle"
        /\ m_IsRunning
        /\ \E q \in Runners \ {r} : rpc[q] \in LoopPcs

\* C16: SignalStop and WaitForStop that find the running flag false return
\* at once, without blocking or faulting, and leave the flag and both
\* signals unchanged.
C16_IdleControlIsNoOp ==
    [][ (cpc \in {"ss_check", "ws_check"} /\ ~m_IsRunning /\ cpc' # cpc)
          => /\ cpc' = "idle"
             /\ UNCHANGED <<m_IsRunning, m_StopEvent, m_ThreadStoppedEvent>>
             /\ ~coordFault'
      ]_vars

\* C16 witness: WaitForStop was skipped on a coordinator that has run and
\* stopped, its signals still set.
C16_Witness ==
    /\ ctlOutcome = "wait_skipped" /\ cpc = "idle"
    /\ ~m_IsRunning
    /\ m_StopEvent = "set" /\ m_ThreadStoppedEvent = "set"

\* C17: with the running flag true, WaitForStop returns after zero, one or
\* many SignalStop calls (with one thread calling Run).
C17_IdempotentStop ==
    \A n \in 0..MaxSignals :
        (cpc = "ws_check" /\ m_IsRunning /\ signalled = n)
            ~> (cpc = "idle" \/ coordFault \/ ~OneRunner)

\* C18: a Run after a completed cycle clears both signals in Reset and
\* enters the loop with continueThread true: the stop signal left set by
\* the previous cycle is cleared and the work function is invoked.
C18_ReRunAfterStop ==
    /\ [][ \A r \in Runners :
             /\ (rpc[r] = "reset_stop" /\ rpc'[r] = "reset_stopped")
                  => m_StopEvent' = "clear"
             /\ (rpc[r] = "reset_stopped" /\ rpc'[r] = "work")
                  => (m_ThreadStoppedEvent' = "clear" /\ continueThread'[r])
             /\ (rpc'[r] \in {"poll", "exit"} /\ rpc'[r] # rpc[r])
                  => rpc[r] = "work"
         ]_vars
    /\ \A r \in Runners :
         (rpc[r] = "mark" /\ runs[r] > 1 /\ m_StopEvent = "set")
            ~> ((rpc[r] = "work" /\ continueThread[r]) \/ coordFault)

\* C18 witness: after a cycle whose WaitForStop waited and returned, the
\* same thread is in its second Run at the work function, both signals
\* clear.
C18_Witness ==
    \E r \in Runners :
        /\ OneRunner /\ runs[r] = MaxRuns
        /\ rpc[r] = "work" /\ continueThread[r]
        /\ ctlOutcome = "wait_done" /\ ~sinceRun
        /\ m_StopEvent = "clear" /\ m_ThreadStoppedEvent = "clear"

\* C19: SimpleThreadCoord::Run on an instance that has a signal raises an
\* error (the thrown nik::Error, or the failed assertion), does not invoke
\* the work function and leaves both signals as they are.
C19_OneShotRefusesReRun ==
    [][ \A r \in Runners :
          ( /\ spc[r] = "check"
            /\ (s_StopEvent # "absent" \/ s_ThreadStoppedEvent # "absent")
            /\ (spc'[r] # spc[r] \/ s_Outcome'[r] # s_Outcome[r]) )
            => /\ s_Outcome'[r] \in {"thrown", "aborted"}
               /\ spc'[r] = "idle"
               /\ UNCHANGED <<s_StopEvent, s_ThreadStoppedEvent>>
      ]_vars

\* C19 witness: a thread's second Run on the instance was refused with the
\* thrown error, after its first Run had completed.
C19_Witness ==
    \E r \in Runners :
        /\ s_Runs[r] = MaxRuns /\ s_Outcome[r] = "thrown" /\ spc[r] = "idle"
        /\ s_StopEvent # "absent" /\ s_ThreadStoppedEvent = "set"

\* C20: after Event::Create has returned 0 in a Run call, the call returns
\* to its caller (or the process has ended in the assertion); it does not
\* go on towards the loop.
C20_CreateFailureEndsRun ==
    \A r \in Runners :
        runOutcome[r] = "create_failed" => (rpc[r] = "idle" \/ coordFault)

\* No Event::Create has failed in a Run call so far.
SignalsCreated == \A r \in Runners : runOutcome[r] # "create_failed"

\* C21: both signals are absent until the first Run, both are present
\* while the running flag is true and after a Run has completed, and no
\* SignalStop or WaitForStop is about to read an absent signal.
C21_SignalsExistOnceRun ==
    (OneRunner /\ SignalsCreated) =>
        /\ (TotalRuns(Runners) = 0)
              => (m_StopEvent = "absent" /\ m_ThreadStoppedEvent = "absent")
        /\ (m_IsRunning \/ \E r \in Runners : runs[r] > 0 /\ rpc[r] = "idle")
              => (m_StopEvent # "absent" /\ m_ThreadStoppedEvent # "absent")
        /\ ~ENABLED NullEventUse

\* C22: when the destruction of the ThreadObj and its coordinator is
\* complete, no thread is executing ThreadCoord::Run or about to.
C22_DestroyedAfterStop ==
    (OneRunner /\ dtor = "done") => \A r \in Runners : rpc[r] = "idle"

\* C23: a wait result that is neither signaled nor timed out is never
\* taken for a normal outcome by Run's poll or by WaitForStop.
C23_WaitFailureIsRaised ==
    /\ \A r \in Runners : runOutcome[r] # "failure_ignored"
    /\ ctlOutcome # "failure_ignored"

\* C24: while the writer is not Active (no SetFile has succeeded so far) a
\* step of operator<< or Flush changes no buffer and ends in no fault.
C24_InactiveCallsIgnored ==
    [][(~m_ThreadStarted /\ \E p \in Producers : ProducerStep(p))
          => /\ m_Os' = m_Os
             /\ m_Buffer' = m_Buffer
             /\ crashed' = crashed]_vars

\* C25: over any sequence of SetFile calls at most one drain thread and
\* one buffer lock are created, both by the first activation whose open
\* succeeded; an activation whose open fails returns without creating.
C25_CreatedAtMostOnce ==
    [][/\ created'.threads <= 1 /\ created'.locks <= 1
       /\ created' # created
             => (~m_ThreadStarted /\ m_Of.open /\ ~m_Of.fail)
       /\ (opc = "sf_open" /\ opc' # opc /\ m_Of'.fail)
             => (opc' = "idle" /\ created' = created)]_vars

\* Two SetFile calls have returned, the later one with the destination
\* open, and the thread and the lock exist.
C25_Witness ==
    /\ setFiles = MaxSetFile /\ opc = "idle"
    /\ m_Of.open /\ ~m_Of.fail
    /\ created = [threads |-> 1, locks |-> 1]

\* C26: from the first successful SetFile (the drain thread has been
\* started) until teardown begins, m_Of is open and not in a failed
\* state, also while a later SetFile is under way and after it.
C26_DestinationStaysOpen ==
    (m_ThreadStarted /\ ~TeardownBegun /\ ~crashed)
        => (m_Of.open /\ ~m_Of.fail)

\* C27: the teardown of a writer that never started is one step that
\* acquires no lock, leaves the pending buffer, the stream and the files
\* as they are, and ends the teardown without a wait.
C27_TeardownNeverStartedNoOp ==
    [][(opc = "idle" /\ opc' \in TeardownPcs /\ ~m_ThreadStarted)
          => /\ opc' = "gone"
             /\ ~Holds(m_Lock', OwnerThread)
             /\ m_BuffMutex' = m_BuffMutex
             /\ m_Buffer' = m_Buffer
             /\ m_Of' = m_Of
             /\ files' = files
             /\ m_Continue' = m_Continue]_vars

\* A writer whose only SetFile calls failed, with text in its front
\* buffer, has been torn down.
C27_Witness ==
    /\ opc = "gone" /\ ~m_ThreadStarted
    /\ setFiles > 0 /\ m_Os # <<>>

\* C28: a WaitForEvent that began after a SetEvent with no ClearEvent
\* since finds the event signaled, whatever other waits were satisfied
\* meanwhile, and returns WAIT_SIGNALED, also with a zero waitTime; no
\* return from a wait changes the event.
C28_ManualReset ==
    [][/\ \A w \in Waiters :
            (wpc'[w] = "wait" /\ sureWait'[w]) => m_Event' = "set"
       /\ \A w \in Waiters :
            (wpc[w] = "wait" /\ wpc'[w] = "idle")
               => /\ m_Event' = m_Event
                  /\ sureWait[w] => waitResult'[w] = "WAIT_SIGNALED"]_vars

\* Every waiter has waited twice on the event set once, the last time
\* with the outcome WAIT_SIGNALED, one of them without waiting.
C28_Witness ==
    /\ m_Event = "set"
    /\ \A w \in Waiters :
          /\ waits[w] = MaxWaits /\ wpc[w] = "idle"
          /\ sureWait[w] /\ waitResult[w] = "WAIT_SIGNALED"
    /\ \E w \in Waiters : waitTime[w] = 0

\* Thread t is inside a scope guarded by a ScopeLock on the front lock.
InFrontScope(t) ==
    t \in Producers
       /\ ppc[t] \in {"ins_body", "tl_body", "fl_write", "wr_body", "fl_true",
                      "fl_false"}

\* Thread t is inside a scope guarded by a ScopeLock on the buffer lock.
InBufferScope(t) ==
    \/ t = DrainThread /\ dpc = "copy"
    \/ t = OwnerThread /\ opc = "td_force"

\* C29: a thread inside a scope guarded by a ScopeLock holds that mutex,
\* which exists; a thread outside every guarded scope and outside Write
\* holds no lock, each lock having been released as often as acquired.
C29_ScopeLockHeld ==
    ~crashed =>
       \A t \in Producers \cup {DrainThread, OwnerThread} :
          /\ InFrontScope(t)
                => (m_Lock.state = "live" /\ Holds(m_Lock, t))
          /\ InBufferScope(t)
                => (m_BuffMutex.state = "live" /\ Holds(m_BuffMutex, t))
          /\ ~InFrontScope(t) => ~Holds(m_Lock, t)
          /\ (~InBufferScope(t) /\ ~(t \in Producers /\ ppc[t] = "wr_body"))
                => ~Holds(m_BuffMutex, t)
          /\ m_Lock.holder = NoThread => m_Lock.count = 0
          /\ m_BuffMutex.holder = NoThread => m_BuffMutex.count = 0

\* No text that is not of b lies between two pieces of b in s.
NotInterleaved(b, s) ==
    \A i, j, k \in 1..Len(s) :
        (i < j /\ j < k /\ s[i] \in Range(b) /\ s[k] \in Range(b))
            => s[j] \in Range(b)

\* C30: the text held by a TLogger is in no buffer of the Logger before
\* TLogger::Flush hands it over, and no text of another thread lies
\* between the pieces of a text handed over by one Flush, in any file.
C30_TLoggerTextContiguous ==
    /\ \A p \in Producers :
          ppc[p] \in {"idle", "tl_lock", "tl_body"} /\ tpc[p] # "flush"
             => Range(t_Os[p]) \cap (Range(m_Os) \cup Downstream) = {}
    /\ \A b \in batches, f \in FileNames : NotInterleaved(b, files[f])

\* The milliseconds in t clock ticks.
ElapsedMs(t) ==
    (t \div CLOCKS_PER_SEC) * 1000 + ((t % CLOCKS_PER_SEC) * 1000) \div CLOCKS_PER_SEC

\* C31: the value GetTimeMs returns is the time, in milliseconds, that
\* the timer has spent running since the last Reset.
C31_TimeIsRunningTime == timeRead => timeMs = ElapsedMs(ranFor)

\* The positions of argv at which the argument '-flag' was given.
GivenAt(flag) == { i \in 2..Len(argv) : argv[i] = <<"-">> \o flag }

\* The non-flag arguments of argv from position i up to the next flag,
\* joined by single spaces.
RECURSIVE Following(_)
Following(i) ==
    IF i > Len(argv) \/ IsFlag(argv[i]) THEN <<>>
    ELSE LET rest == Following(i + 1)
         IN  IF rest = <<>> THEN argv[i] ELSE argv[i] \o <<" ">> \o rest

\* C32: GetArg(flag) returns null exactly when no argument '-flag' was
\* given, and otherwise the non-flag arguments that follow that flag up to
\* the next flag, joined by single spaces.
C32_GetArgIsWhatFollowsFlag ==
    askedFlag # <<>> =>
       /\ gotArg.null <=> GivenAt(askedFlag) = {}
       /\ ~gotArg.null =>
             \E i \in GivenAt(askedFlag) : gotArg.str = Following(i + 1)

\* How often observer o is in the observer list of observable s.
TimesListed(s, o) ==
    Cardinality({ i \in 1..Len(m_ObserverList[s]) : m_ObserverList[s][i] = o })

\* C33: every observer is in the observer list of an Observable at most
\* once, one registered with it is in the list, and notifyAll notifies
\* each observer registered with it exactly once and no other.
C33_ListedAndNotifiedOnce ==
    \A s \in Observables, o \in Observers :
       /\ TimesListed(s, o) <= 1
       /\ o \in registered[s] => TimesListed(s, o) = 1
       /\ notifiedNow = s => notified[o] = (IF o \in registered[s] THEN 1 ELSE 0)

\* C34: within one Run the work function is called with the flag false at
\* most once: once the poll has observed the stop signal the next step of
\* the loop is that call, and after that call the loop has been left
\* whatever the call returned.
C34_LastCallAfterStopObserved ==
    \A r \in Runners :
       /\ falseCalls[r] <= 1
       /\ (rpc[r] = "work" /\ ~continueThread[r]) => falseCalls[r] = 0
       /\ falseCalls[r] = 1 => (~continueThread[r] /\ rpc[r] \notin {"work", "poll"})
       /\ (~continueThread[r] /\ rpc[r] \in {"exit", "stopped"})
             => falseCalls[r] = 1

\* C34 witness: a Run that has observed the stop signal, called the work
\* function with the flag false and left the loop.
C34_Witness ==
    \E r \in Runners : rpc[r] = "exit" /\ falseCalls[r] = 1

\* The latest Run of r has come back, and it left its loop because the work
\* function returned false: the flag of the loop is still true.
ClientEnded(r) ==
    rpc[r] = "idle" /\ runOutcome[r] = "entered" /\ continueThread[r]

\* C35: once a Run has come back because the work function returned false,
\* the running flag is clear and the stopped signal is set, and no
\* WaitForStop is blocked: a WaitForStop made then returns without waiting,
\* whether or not SignalStop was ever called.
C35_ClientStopNeedsNoWait ==
    /\ [](\A r \in Runners :
            (OneRunner /\ ClientEnded(r)) =>
               /\ ~m_IsRunning
               /\ EventSignaled(m_ThreadStoppedEvent)
               /\ cpc \notin {"waiting", "orphaned"})
    /\ [][\A r \in Runners :
            (OneRunner /\ ClientEnded(r) /\ cpc = "ws_check" /\ cpc' # cpc) =>
               (cpc' = "idle" /\ ctlOutcome' = "wait_skipped")]_vars

\* C35 witness: the work function returned false, no SignalStop was made,
\* and a WaitForStop called after Run had come back has returned.
C35_Witness ==
    \E r \in Runners :
       /\ OneRunner /\ ClientEnded(r)
       /\ signalled = 0 /\ sinceRun
       /\ cpc = "idle" /\ ctlOutcome = "wait_skipped"

\* C36: a SignalStop that found the running flag true and set the stop
\* signal during a Run is followed by that Run leaving its loop (or the
\* process has faulted), for every interleaving with Run's startup steps.
C36_SignalStopNotLost ==
    \A r \in Runners :
       (ctlOutcome = "signal_set" /\ sinceRun /\ rpc[r] \in MarkedPcs)
          ~> (rpc[r] \in {"exit", "stopped", "idle"} \/ coordFault \/ ~OneRunner)

\* C37: once ~LogImpl has deleted the buffer lock (and from then on, while
\* it closes the destination and after it), the drain thread is past the
\* last test of its loop that let it in: it is not on its way to the lock,
\* the pending buffer or the destination.
C37_DrainLeftBeforeRelease ==
    (m_ThreadStarted /\ opc \in {"td_close", "gone"})
        => dpc \notin {"lock", "copy", "write", "flush"}

\* Thread t is at a statement that acquires the front lock.
WaitsForFront(t) ==
    t \in Producers /\ ppc[t] \in {"mn_lock", "ins_lock", "fl_lock", "tl_lock"}

\* Thread t is at a statement that acquires the buffer lock.
WaitsForBuffer(t) ==
    \/ t \in Producers /\ ppc[t] = "fl_write"
    \/ t = DrainThread /\ dpc = "lock"
    \/ t = OwnerThread /\ opc = "td_lock"

\* C38: a thread that acquires the front lock does not hold the buffer
\* lock, no thread that holds the buffer lock is at an acquisition of the
\* front lock, and no two threads each wait for a lock the other holds.
C38_LockOrder ==
    /\ [][\A t \in Producers \cup {DrainThread, OwnerThread} :
            (m_Lock'.holder = t /\ m_Lock'.count > m_Lock.count)
               => ~Holds(m_BuffMutex, t)]_vars
    /\ [](\A t \in Producers \cup {DrainThread, OwnerThread} :
            Holds(m_BuffMutex, t) => ~WaitsForFront(t))
    /\ [](\A t, u \in Producers \cup {DrainThread, OwnerThread} :
            ~(/\ WaitsForFront(t) /\ Holds(m_Lock, u) /\ u # t
              /\ WaitsForBuffer(u) /\ Holds(m_BuffMutex, t)))

\* C38 witness: a producer that holds the front lock is at the acquisition
\* of the buffer lock, which the drain thread holds, while another
\* producer waits for the front lock.
C38_Witness ==
    \E p, q \in Producers :
       /\ Holds(m_Lock, p) /\ WaitsForBuffer(p)
       /\ Holds(m_BuffMutex, DrainThread)
       /\ q # p /\ WaitsForFront(q)

\* C39: no thread is at an acquisition of a lock it holds, and no lock has
\* been acquired twice without a release in between, in a writer whose
\* producers use operator<<, operator<< with endl, and Flush.
C39_NoLockTakenTwice ==
    ~crashed =>
       /\ \A t \in Producers \cup {DrainThread, OwnerThread} :
             /\ Holds(m_Lock, t) => ~WaitsForFront(t)
             /\ Holds(m_BuffMutex, t) => ~WaitsForBuffer(t)
       /\ m_Lock.count <= 1
       /\ m_BuffMutex.count <= 1

\* C40: the Thread object of a ThreadObj is deleted at most once: the
\* spawned thread's cleanup and ~ThreadObj never both evaluate delete on
\* it.
C40_HandleReleasedOnce == handleDeletes <= 1

=============================================================================
